---- MODULE Spec2Model ----
(***************************************************************************)
(* Model of gosml: the SML (Smart Message Language) stream decoder.        *)
(*                                                                         *)
(*   bytes -> readFile (frame extractor) -> parseFile (TLV parser)         *)
(*         -> GetListResponse entries -> obisGroupCallback.call -> calls   *)
(*                                                                         *)
(* Bytes are the integers 0..255.  A Go slice is a sequence; a cursor or   *)
(* an index is 0-based as in the source, so the byte at cursor c of B is   *)
(* B[c+1].  Machine integers decoded from the wire are kept as big-endian  *)
(* byte vectors of their width, so that no width is lost.                  *)
(***************************************************************************)
EXTENDS Integers, Sequences, FiniteSets, TLC

VARIABLES
    input,          \* the stream, as the sequence of pieces it is made of
    srcErr,         \* what the underlying reader reports once it is drained
    opts,           \* the ReadOptions: the OBIS codes registered, in order
    pc,             \* position of Read: "config", "readFile", "parseFile", "dispatch", "done"
                    \* ("tree" and "chunk" in the specifications of the parts)
    pos,            \* number of bytes of the stream consumed so far
    tree,           \* options.topLevelCallback (NoTree until the first option)
    fileBytes,      \* the file the last readFile call returned
    fileMessages,   \* the messages the last parseFile call returned
    ret,            \* what Read returned ("none" while it runs)
    calls,          \* every callback invocation so far, in order
    log,            \* outcome of every iteration of the driver loop, in order
    parsed,         \* per frame that reached the dispatch loop: the entry names, by message
    fired,          \* result of the last direct obisGroupCallback.call
    rd              \* the readChunk in progress: source, destination, n, reads, err, result

vars == <<input, srcErr, opts, pc, pos, tree, fileBytes, fileMessages, ret,
          calls, log, parsed, fired, rd>>

Nil == "nil"

(***************************************************************************)
(* Bounds of the model.                                                    *)
(***************************************************************************)
MaxTokens == 2      \* pieces per stream
MaxRegs == 3        \* registrations in the dispatch-tree specification
MaxSrcLen == 5      \* bytes in the source of the readChunk specification
MaxBufLen == 3      \* bytes of a generated buffer of the TLV specification
MaxScanLen == 11    \* bytes of a source of the START scan specification
MaxParts == 3       \* parts per payload of the parseFile specification
MaxEntries == 2     \* entries encoded in a val-list of the ListParse specification
MaxPieces == 4      \* pieces per stream of the readFile specification

(***************************************************************************)
(* Constants of the program.                                               *)
(***************************************************************************)
maxFileSize == 512
escSeq == <<27, 27, 27, 27>>
endSeq == <<27, 27, 27, 27, 26>>

OCTET_TYPE_FIELD == 112
OCTET_LENGTH_FIELD == 15
OCTET_MORE_FIELD == 128
OCTET_TYPE_OCTET_STRING == 0
OCTET_TYPE_BOOLEAN == 64
OCTET_TYPE_INTEGER == 80
OCTET_TYPE_UNSIGNED == 96
OCTET_TYPE_LIST == 112
OCTET_OPTIONAL_SKIPPED == 1
OCTET_MESSAGE_END == 0
TYPE_NUMBER_8 == 1
TYPE_NUMBER_16 == 2
TYPE_NUMBER_32 == 4
TYPE_NUMBER_64 == 8

MESSAGE_GET_LIST_RESPONSE == <<0, 0, 7, 1>>

\* the tags of the other message bodies: open request and response, close
\* request and response, get-profile-pack, get-profile-list, get- and
\* set-proc-parameter (requests and responses), attention response
OpaqueBodyTags ==
    {<<0, 0, 1, 0>>, <<0, 0, 1, 1>>, <<0, 0, 2, 0>>, <<0, 0, 2, 1>>, <<0, 0, 3, 1>>,
     <<0, 0, 4, 1>>, <<0, 0, 5, 1>>, <<0, 0, 6, 0>>, <<0, 0, 255, 1>>}

(***************************************************************************)
(* TLV buffer.  Every parser takes the bytes B and the cursor c and yields *)
(* [err, cur, val]: err is "nil", "error" (a returned parse error) or      *)
(* "panic" (an index out of range), cur the cursor afterwards.  The result *)
(* of one step is handed to the next as an argument.                       *)
(***************************************************************************)
R(err, cur, val) == [err |-> err, cur |-> cur, val |-> val]

Zeros(n) == [i \in 1..n |-> 0]

\* b & OCTET_TYPE_FIELD
TypeField(b) == ((b \div 16) % 8) * 16

\* Buffer.GetNextType: the type family of the TL byte at the cursor
GetNextType(B, c) == TypeField(B[c + 1])

\* the TL bytes from the cursor on: nibble concatenation while the high bit is set
RECURSIVE TLLength(_, _, _, _)
TLLength(B, c, acc, n) ==
    IF c >= Len(B) THEN R("panic", c, [length |-> 0, tl |-> 0])
    ELSE IF B[c + 1] >= OCTET_MORE_FIELD
         THEN TLLength(B, c + 1, acc * 16 + (B[c + 1] % (OCTET_LENGTH_FIELD + 1)), n + 1)
         ELSE R(Nil, c + 1, [length |-> acc * 16 + (B[c + 1] % (OCTET_LENGTH_FIELD + 1)),
                             tl |-> n + 1])

\* Buffer.GetNextLength: a list's length is its element count, any other
\* element's length counts its own TL bytes, which are taken off
GetNextLength(B, c) ==
    LET r == TLLength(B, c, 0, 0)
    IN  IF r.err # Nil THEN R(r.err, r.cur, 0)
        ELSE IF GetNextType(B, c) = OCTET_TYPE_LIST THEN R(Nil, r.cur, r.val.length)
        ELSE R(Nil, r.cur, r.val.length - r.val.tl)

\* a skip test that answers without moving the cursor
OptionalIsSkippedPeeking(B, c) ==
    IF c >= Len(B) THEN R("panic", c, FALSE)
    ELSE R(Nil, c, B[c + 1] = OCTET_OPTIONAL_SKIPPED)

\* Buffer.OptionalIsSkipped: peeks the cursor; val is the answer
OptionalIsSkipped(B, c) ==
    IF c >= Len(B) THEN R("panic", c, FALSE)
    ELSE IF B[c + 1] = OCTET_OPTIONAL_SKIPPED THEN R(Nil, c + 1, TRUE)
    ELSE R(Nil, c, FALSE)

\* a type check that takes the two integer families for one another
ExpectTypeLoose(B, c, typ) ==
    IF c >= Len(B) THEN R("panic", c, 0)
    ELSE IF GetNextType(B, c) # typ
            /\ {GetNextType(B, c), typ} # {OCTET_TYPE_INTEGER, OCTET_TYPE_UNSIGNED}
         THEN R("error", c, 0)
    ELSE R(Nil, c, 0)

\* Buffer.ExpectType: the next TL byte is of the family typ; the cursor stays
ExpectType(B, c, typ) ==
    IF c >= Len(B) THEN R("panic", c, 0)
    ELSE IF GetNextType(B, c) # typ THEN R("error", c, 0)
    ELSE R(Nil, c, 0)

\* Buffer.Expect: the next TL is exactly (typ, length); the cursor passes it
Expect(B, c, typ, length) ==
    LET t == ExpectType(B, c, typ)
        l == GetNextLength(B, c)
    IN  IF t.err # Nil THEN t
        ELSE IF l.err # Nil THEN l
        ELSE IF l.val # length THEN R("error", l.cur, 0)
        ELSE R(Nil, l.cur, 0)

\* an opening without the skip test: every element is required
HeaderRequired(B, c, typ) ==
    LET t == ExpectType(B, c, typ)
        l == GetNextLength(B, c)
    IN  IF t.err # Nil THEN R(t.err, c, [skipped |-> FALSE, length |-> 0])
        ELSE R(l.err, l.cur, [skipped |-> FALSE, length |-> l.val])

\* the opening of every optional scalar: the skip test, the type check and
\* the length, in this order
Header(B, c, typ) ==
    LET s == OptionalIsSkipped(B, c)
        t == ExpectType(B, c, typ)
        l == GetNextLength(B, c)
    IN  IF s.err # Nil THEN R(s.err, c, [skipped |-> FALSE, length |-> 0])
        ELSE IF s.val THEN R(Nil, s.cur, [skipped |-> TRUE, length |-> 0])
        ELSE IF t.err # Nil THEN R(t.err, c, [skipped |-> FALSE, length |-> 0])
        ELSE R(l.err, l.cur, [skipped |-> FALSE, length |-> l.val])

OctetStringOf(B, h) ==
    IF h.err # Nil THEN R(h.err, h.cur, <<>>)
    ELSE IF h.val.skipped THEN R(Nil, h.cur, <<>>)
    ELSE IF h.val.length < 0 \/ h.cur + h.val.length > Len(B) THEN R("error", h.cur, <<>>)
    ELSE R(Nil, h.cur + h.val.length, SubSeq(B, h.cur + 1, h.cur + h.val.length))

\* Buffer.OctetStringParse
OctetStringParse(B, c) == OctetStringOf(B, Header(B, c, OCTET_TYPE_OCTET_STRING))

\* width expansion of an unsigned value: left-padded with zeros
PadUnsigned(bytes, w) == Zeros(w - Len(bytes)) \o bytes

\* a width expansion that takes no account of the sign
PadSignedWithZeros(bytes, w) == Zeros(w - Len(bytes)) \o bytes

\* width expansion of a signed value: sign-extended
PadSigned(bytes, w) ==
    [i \in 1..(w - Len(bytes)) |-> IF bytes[1] >= 128 THEN 255 ELSE 0] \o bytes

NumberOf(B, h, typ, maxSize) ==
    IF h.err # Nil THEN R(h.err, h.cur, Zeros(maxSize))
    ELSE IF h.val.skipped THEN R(Nil, h.cur, Zeros(maxSize))
    ELSE IF h.val.length < 1 \/ h.val.length > maxSize \/ h.cur + h.val.length > Len(B)
         THEN R("error", h.cur, Zeros(maxSize))
    ELSE R(Nil, h.cur + h.val.length,
           IF typ = OCTET_TYPE_INTEGER
           THEN PadSigned(SubSeq(B, h.cur + 1, h.cur + h.val.length), maxSize)
           ELSE PadUnsigned(SubSeq(B, h.cur + 1, h.cur + h.val.length), maxSize))

\* Buffer.NumberParse: val is the value as a big-endian vector of maxSize bytes
NumberParse(B, c, typ, maxSize) == NumberOf(B, Header(B, c, typ), typ, maxSize)

U8Parse(B, c) == NumberParse(B, c, OCTET_TYPE_UNSIGNED, TYPE_NUMBER_8)
U16Parse(B, c) == NumberParse(B, c, OCTET_TYPE_UNSIGNED, TYPE_NUMBER_16)
U32Parse(B, c) == NumberParse(B, c, OCTET_TYPE_UNSIGNED, TYPE_NUMBER_32)
I8Parse(B, c) == NumberParse(B, c, OCTET_TYPE_INTEGER, TYPE_NUMBER_8)

I64Parse(B, c) == NumberParse(B, c, OCTET_TYPE_INTEGER, TYPE_NUMBER_64)

\* Buffer.StatusParse: optional unsigned of any width up to 64 bits
StatusParse(B, c) == NumberParse(B, c, OCTET_TYPE_UNSIGNED, TYPE_NUMBER_64)

BooleanOf(B, h) ==
    IF h.err # Nil THEN R(h.err, h.cur, FALSE)
    ELSE IF h.val.skipped THEN R(Nil, h.cur, FALSE)
    ELSE IF h.val.length # 1 \/ h.cur + 1 > Len(B) THEN R("error", h.cur, FALSE)
    ELSE R(Nil, h.cur + 1, B[h.cur + 1] # 0)

\* Buffer.BooleanParse
BooleanParse(B, c) == BooleanOf(B, Header(B, c, OCTET_TYPE_BOOLEAN))

ZeroValue == [Typ |-> 0, DataBytes |-> <<>>, DataBoolean |-> FALSE, DataInt |-> Zeros(8)]

\* Buffer.ValueParse: the value by the type family of its TL; it keeps the
\* family and the width
ValueParse(B, c) ==
    LET s == OptionalIsSkipped(B, c)
        typ == GetNextType(B, c)
        o == OctetStringParse(B, c)
        b == BooleanParse(B, c)
        l == GetNextLength(B, c)
        n == NumberParse(B, c, typ, TYPE_NUMBER_64)
    IN  IF s.err # Nil THEN R(s.err, c, ZeroValue)
        ELSE IF s.val THEN R(Nil, s.cur, ZeroValue)
        ELSE IF typ = OCTET_TYPE_OCTET_STRING
             THEN R(o.err, o.cur, [ZeroValue EXCEPT !.Typ = typ, !.DataBytes = o.val])
        ELSE IF typ = OCTET_TYPE_BOOLEAN
             THEN R(b.err, b.cur, [ZeroValue EXCEPT !.Typ = typ, !.DataBoolean = b.val])
        ELSE IF typ \in {OCTET_TYPE_INTEGER, OCTET_TYPE_UNSIGNED}
             THEN IF n.err # Nil THEN R(n.err, n.cur, ZeroValue)
                  ELSE R(Nil, n.cur, [ZeroValue EXCEPT !.Typ = typ + l.val, !.DataInt = n.val])
        ELSE R("error", c, ZeroValue)

\* value of a short big-endian vector as a number
RECURSIVE BEValue(_)
BEValue(bytes) ==
    IF bytes = <<>> THEN 0
    ELSE BEValue(SubSeq(bytes, 1, Len(bytes) - 1)) * 256 + bytes[Len(bytes)]

(***************************************************************************)
(* Structures: a list of n elements whose fields are parsed one after the  *)
(* other, the first failing field ending the parse with its error.         *)
(***************************************************************************)
RECURSIVE Field(_, _, _)
RECURSIVE Fields(_, _, _, _)
RECURSIVE TimeParse(_, _)
RECURSIVE ListParse(_, _)
RECURSIVE MessageBodyParse(_, _)

\* the result r of the fields so far, extended by the result f of the next
Push(r, f) == R(f.err, f.cur, Append(r.val, f.val))

\* one field, by the parser the source calls for it
Field(B, c, kind) ==
    CASE kind = "octet" -> OctetStringParse(B, c)
      [] kind = "u8" -> U8Parse(B, c)
      [] kind = "u16" -> U16Parse(B, c)
      [] kind = "u32" -> U32Parse(B, c)
      [] kind = "i8" -> I8Parse(B, c)
      [] kind = "status" -> StatusParse(B, c)
      [] kind = "time" -> TimeParse(B, c)
      [] kind = "value" -> ValueParse(B, c)
      [] kind = "list" -> ListParse(B, c)
      [] kind = "body" -> MessageBodyParse(B, c)

\* "if x, err = parse(); err != nil { return }" for the fields i, i+1, ...
Fields(B, r, kinds, i) ==
    IF r.err # Nil \/ i > Len(kinds) THEN r
    ELSE Fields(B, Push(r, Field(B, r.cur, kinds[i])), kinds, i + 1)

\* Expect(OCTET_TYPE_LIST, n), then the fields; val is the tuple of their values
Struct(B, c, n, kinds) ==
    LET e == Expect(B, c, OCTET_TYPE_LIST, n)
    IN  Fields(B, R(e.err, e.cur, <<>>), kinds, 1)

\* Buffer.TimeParse: absent is zero; present is the choice {tag, u32 seconds}
TimeParse(B, c) ==
    LET s == OptionalIsSkipped(B, c)
        r == Struct(B, c, 2, <<"u8", "u32">>)
    IN  IF s.err # Nil THEN R(s.err, c, Zeros(4))
        ELSE IF s.val THEN R(Nil, s.cur, Zeros(4))
        ELSE IF r.err # Nil THEN R(r.err, r.cur, Zeros(4))
        ELSE R(Nil, r.cur, r.val[2])

(***************************************************************************)
(* GetListResponse body (msg_getlistresponse.go).                          *)
(***************************************************************************)
ZeroEntry ==
    [ObjName |-> <<>>, status |-> Zeros(8), valTime |-> Zeros(4), Unit |-> 0,
     scaler |-> Zeros(1), Value |-> ZeroValue, ValueSignature |-> <<>>]

\* an entry parser that takes the first octet string for the signature and
\* the last for the name
ListEntryParseSignatureFirst(B, c) ==
    LET r == Struct(B, c, 7, <<"octet", "status", "time", "u8", "i8", "value", "octet">>)
    IN  IF r.err # Nil THEN R(r.err, r.cur, ZeroEntry)
        ELSE R(Nil, r.cur,
               [ObjName |-> r.val[7], status |-> r.val[2], valTime |-> r.val[3],
                Unit |-> BEValue(r.val[4]), scaler |-> r.val[5], Value |-> r.val[6],
                ValueSignature |-> r.val[1]])

\* ListEntryParse: a list-of-7 in the order obj-name, status, val-time, unit,
\* scaler, value, value-signature
ListEntryParse(B, c) ==
    LET r == Struct(B, c, 7, <<"octet", "status", "time", "u8", "i8", "value", "octet">>)
    IN  IF r.err # Nil THEN R(r.err, r.cur, ZeroEntry)
        ELSE R(Nil, r.cur,
               [ObjName |-> r.val[1], status |-> r.val[2], valTime |-> r.val[3],
                Unit |-> BEValue(r.val[4]), scaler |-> r.val[5], Value |-> r.val[6],
                ValueSignature |-> r.val[7]])

\* the loop of ListParse: elems entries, appended in encoded order
RECURSIVE ListEntries(_, _, _)
ListEntries(B, r, elems) ==
    IF r.err # Nil \/ elems <= 0 THEN r
    ELSE ListEntries(B, Push(r, ListEntryParse(B, r.cur)), elems - 1)

\* ListParse; a failed list is no list
ListParse(B, c) ==
    LET s == OptionalIsSkipped(B, c)
        t == ExpectType(B, c, OCTET_TYPE_LIST)
        l == GetNextLength(B, c)
        r == ListEntries(B, R(Nil, l.cur, <<>>), l.val)
    IN  IF s.err # Nil THEN R(s.err, c, <<>>)
        ELSE IF s.val THEN R(Nil, s.cur, <<>>)
        ELSE IF t.err # Nil THEN R(t.err, c, <<>>)
        ELSE IF l.err # Nil THEN R(l.err, l.cur, <<>>)
        ELSE IF r.err # Nil THEN R(r.err, r.cur, <<>>)
        ELSE r

ZeroList ==
    [ClientID |-> <<>>, ServerID |-> <<>>, ListName |-> <<>>,
     ActSensorTime |-> Zeros(4), ValList |-> <<>>, ListSignature |-> <<>>,
     ActGatewayTime |-> Zeros(4)]

\* GetListResponseParse: a list-of-7
GetListResponseParse(B, c) ==
    LET r == Struct(B, c, 7, <<"octet", "octet", "octet", "time", "list", "octet", "time">>)
    IN  IF r.err # Nil THEN R(r.err, r.cur, ZeroList)
        ELSE R(Nil, r.cur,
               [ClientID |-> r.val[1], ServerID |-> r.val[2], ListName |-> r.val[3],
                ActSensorTime |-> r.val[4], ValList |-> r.val[5],
                ListSignature |-> r.val[6], ActGatewayTime |-> r.val[7]])

(***************************************************************************)
(* ListEntry accessors (msg_getlistresponse.go).  A float64 that is an     *)
(* integer times a power of ten is held as that pair, with the integer not *)
(* divisible by ten; the rounding of float64 to 53 binary digits is not    *)
(* represented.  A string is a TLA+ string.                                *)
(***************************************************************************)
RECURSIVE Canon(_, _)
Canon(mant, exp) ==
    IF mant = 0 THEN [mant |-> 0, exp |-> 0]
    ELSE IF mant % 10 = 0 THEN Canon(mant \div 10, exp + 1)
    ELSE [mant |-> mant, exp |-> exp]

\* a * b, and a / b for b a power of ten
FloatMul(a, b) == Canon(a.mant * b.mant, a.exp + b.exp)
FloatDiv(a, b) == Canon(a.mant, a.exp - b.exp)

\* a power of ten computed one factor too high
Pow10Inclusive(n) == FloatMul(Canon(1, 1), Canon(1, n))
\* math.Pow10 within the range of float64, from its tables of 10^i for i < 32,
\* of 10^(32 i) and of 10^(-32 i):
\*   pow10postab32[uint(n)/32] * pow10tab[uint(n)%32]     for 0 <= n <= 308
\*   pow10negtab32[uint(-n)/32] / pow10tab[uint(-n)%32]   for -323 <= n <= 0
Pow10(n) ==
    IF 0 <= n /\ n <= 308
    THEN FloatMul(Canon(1, 32 * (n \div 32)), Canon(1, n % 32))
    ELSE FloatDiv(Canon(1, -(32 * ((-n) \div 32))), Canon(1, (-n) % 32))

\* the scaler byte taken as unsigned
Uint8(b) == b
\* the int8 held in the byte b
Int8(b) == IF b >= 128 THEN b - 256 ELSE b

\* the int64 held in 8 big-endian bytes (two's complement)
Int64(bytes) ==
    IF bytes[1] >= 128
    THEN -(BEValue([i \in 1..Len(bytes) |-> 255 - bytes[i]]) + 1)
    ELSE BEValue(bytes)

\* ListEntry.Scaler
Scaler(le) == Pow10(Int8(le.scaler[1]))

\* the family test without the mask
IsNumberExactly(typ) == typ = OCTET_TYPE_INTEGER \/ typ = OCTET_TYPE_UNSIGNED
\* (Typ & OCTET_TYPE_FIELD) == OCTET_TYPE_INTEGER || ... == OCTET_TYPE_UNSIGNED
IsNumber(typ) ==
    TypeField(typ) = OCTET_TYPE_INTEGER \/ TypeField(typ) = OCTET_TYPE_UNSIGNED

\* ListEntry.Float
Float(le) ==
    IF IsNumber(le.Value.Typ)
    THEN FloatMul(Canon(Int64(le.Value.DataInt), 0), Scaler(le))
    ELSE Canon(0, 0)

Digits == <<"0", "1", "2", "3", "4", "5", "6", "7", "8", "9">>
HexDigits == Digits \o <<"a", "b", "c", "d", "e", "f">>

\* the verb %x of a byte
RECURSIVE FormatHex(_)
FormatHex(n) ==
    IF n < 16 THEN HexDigits[n + 1] ELSE FormatHex(n \div 16) \o HexDigits[(n % 16) + 1]
\* the verb %d of a byte
RECURSIVE FormatDecimal(_)
FormatDecimal(n) ==
    IF n < 10 THEN Digits[n + 1] ELSE FormatDecimal(n \div 10) \o Digits[(n % 10) + 1]

\* ListEntry.ObjectName: fmt.Sprintf("%d-%d:%d.%d.%d*%d", ObjName[0], ...,
\* ObjName[5]); indexing a shorter name panics
ObjectName(le) ==
    IF Len(le.ObjName) < 6 THEN [panic |-> TRUE, str |-> ""]
    ELSE [panic |-> FALSE,
          str |-> FormatDecimal(le.ObjName[1]) \o "-" \o FormatDecimal(le.ObjName[2])
                    \o ":" \o FormatDecimal(le.ObjName[3]) \o "." \o FormatDecimal(le.ObjName[4])
                    \o "." \o FormatDecimal(le.ObjName[5]) \o "*" \o FormatDecimal(le.ObjName[6])]

(***************************************************************************)
(* Message envelope.                                                       *)
(***************************************************************************)
\* a body the callbacks do not look into: one element, whatever its shape,
\* is passed over so that the cursor ends behind it
RECURSIVE SkipElement(_, _)
RECURSIVE SkipElements(_, _, _)
SkipElement(B, c) ==
    LET l == GetNextLength(B, c)
    IN  IF c >= Len(B) THEN R("panic", c, 0)
        ELSE IF l.err # Nil THEN l
        ELSE IF GetNextType(B, c) = OCTET_TYPE_LIST
             THEN SkipElements(B, R(Nil, l.cur, 0), l.val)
        ELSE IF l.val < 0 \/ l.cur + l.val > Len(B) THEN R("error", l.cur, 0)
        ELSE R(Nil, l.cur + l.val, 0)
SkipElements(B, r, n) ==
    IF r.err # Nil \/ n <= 0 THEN r ELSE SkipElements(B, SkipElement(B, r.cur), n - 1)

Opaque == [opaque |-> TRUE]
NoBody == [Tag |-> Zeros(4), Data |-> Opaque]

\* the body: a list-of-2 {message type tag, data}, the data parsed by tag
MessageBodyParse(B, c) ==
    LET r == Struct(B, c, 2, <<"u32">>)
        g == GetListResponseParse(B, r.cur)
        o == SkipElement(B, r.cur)
    IN  IF r.err # Nil THEN R(r.err, r.cur, NoBody)
        ELSE IF r.val[1] = MESSAGE_GET_LIST_RESPONSE
             THEN R(g.err, g.cur, [Tag |-> r.val[1], Data |-> g.val])
        ELSE IF r.val[1] \in OpaqueBodyTags
             THEN R(o.err, o.cur, [Tag |-> r.val[1], Data |-> Opaque])
        ELSE R("error", r.cur, NoBody)

\* after the fields r, the end-of-message byte
MessageOf(B, r) ==
    IF r.err # Nil THEN R(r.err, r.cur, [MessageBody |-> NoBody])
    ELSE IF r.cur >= Len(B) THEN R("panic", r.cur, [MessageBody |-> NoBody])
    ELSE IF B[r.cur + 1] # OCTET_MESSAGE_END THEN R("error", r.cur, [MessageBody |-> NoBody])
    ELSE R(Nil, r.cur + 1, [MessageBody |-> r.val[4]])

\* MessageParse: a list-of-6 {transaction id, group no, abort on error, body,
\* crc16, end of message}
MessageParse(B, c) == MessageOf(B, Struct(B, c, 6, <<"octet", "u8", "u8", "body", "u16">>))

(***************************************************************************)
(* parseFile (gosml.go).                                                   *)
(***************************************************************************)
\* the cursor after the run of OCTET_MESSAGE_END bytes that begins at c:
\* parseFile passes them one UpdateBytesRead(1) at a time
SkipMessageEnds(B, c) ==
    IF \A i \in (c + 1)..Len(B) : B[i] = OCTET_MESSAGE_END THEN Len(B)
    ELSE (CHOOSE i \in (c + 1)..Len(B) :
              /\ B[i] # OCTET_MESSAGE_END
              /\ \A j \in (c + 1)..(i - 1) : B[j] = OCTET_MESSAGE_END) - 1

\* a loop that returns no messages beside an error
CollectOrNothing(r, m) ==
    IF m.err # Nil THEN R(m.err, m.cur, <<>>) ELSE R(Nil, m.cur, Append(r.val, m.val))

\* the loop "for buf.Cursor < len(buf.Bytes)": r holds the error, the cursor
\* and the messages so far, which parseFile returns beside the error
\* "return messages, err" or "messages = append(messages, msg)"
Collect(r, m) ==
    IF m.err # Nil THEN R(m.err, m.cur, r.val) ELSE R(Nil, m.cur, Append(r.val, m.val))

RECURSIVE parseFileFrom(_, _)
parseFileFrom(B, r) ==
    IF r.err # Nil THEN r
    ELSE IF SkipMessageEnds(B, r.cur) >= Len(B) THEN [r EXCEPT !.cur = Len(B)]
    ELSE parseFileFrom(B, Collect(r, MessageParse(B, SkipMessageEnds(B, r.cur))))

parseFile(fileBytes_) == parseFileFrom(fileBytes_, R(Nil, 0, <<>>))

(***************************************************************************)
(* Byte source: a bufio.Reader over a finite stream s of which p bytes are *)
(* consumed; once drained the underlying reader reports srcErr_.           *)
(***************************************************************************)
ErrUnrecognizedSequence == "unrecognized sequence"
ErrSequenceTooLong == "max sequence length exceeded"
EOF == "EOF"
ErrUnexpectedEOF == "unexpected EOF"
IoError == "io error"

\* a single Read in place of the loop
OneRead(r) == r.reads = 0 /\ r.err = Nil
\* the loop of io.ReadFull, "for n < min && err == nil", on the read r
ReadFullContinues(r) == r.n < Len(r.buf) /\ r.err = Nil

\* one r.Read(buf[n:]) that yields the next k bytes of the source
ReadPiece(r, k) ==
    [r EXCEPT !.src = SubSeq(@, k + 1, Len(@)),
              !.buf = [i \in 1..Len(@) |-> IF i > r.n /\ i <= r.n + k THEN r.src[i - r.n] ELSE @[i]],
              !.n = @ + k,
              !.reads = @ + 1]

\* what io.ReadFull returns once the loop is left
ReadFullResult(r) ==
    IF r.n >= Len(r.buf) THEN Nil
    ELSE IF r.n > 0 /\ r.err = EOF THEN ErrUnexpectedEOF
    ELSE r.err

\* readChunk = io.ReadFull(r, buf) for a buffer of n bytes, as a whole: nil
\* when n bytes were there; the reader's error when none was; with some but
\* not all of them, io.ErrUnexpectedEOF in place of EOF, any other error as it is
readChunk(s, p, n, srcErr_) ==
    IF Len(s) - p >= n THEN [err |-> Nil, pos |-> p + n]
    ELSE IF Len(s) - p > 0 /\ srcErr_ = EOF THEN [err |-> ErrUnexpectedEOF, pos |-> Len(s)]
    ELSE [err |-> srcErr_, pos |-> Len(s)]

(***************************************************************************)
(* readFile (gosml.go).                                                    *)
(***************************************************************************)
StartSeq == <<27, 27, 27, 27, 1, 1, 1, 1>>

\* the scan taking 1B and 01 at any place of the START
ScanStepLoose(len, b) ==
    IF b = 27 \/ b = 1 THEN len + 1 ELSE 0
\* the scan taking a mismatching 1B as the first byte of a new START
ScanStepRestarting(len, b) ==
    IF (b = 27 /\ len < 4) \/ (b = 1 /\ len >= 4) THEN len + 1
    ELSE IF b = 27 THEN 1 ELSE 0
\* the START scan's treatment of one byte b at progress len
ScanStep(len, b) ==
    IF (b = 27 /\ len < 4) \/ (b = 1 /\ len >= 4) THEN len + 1 ELSE 0

\* one iteration of the loop "for len < 8": st is [len, pos, err], err "run"
\* while the loop runs, Nil once START is locked, else ReadByte's error
ScanIter(s, st, srcErr_) ==
    IF st.err # "run" THEN st
    ELSE IF ~(st.len < 8) THEN [st EXCEPT !.err = Nil]
    ELSE IF st.pos >= Len(s) THEN [st EXCEPT !.err = srcErr_]
    ELSE [st EXCEPT !.len = ScanStep(st.len, s[st.pos + 1]), !.pos = st.pos + 1]

\* n iterations of the scan loop, one after the other
RECURSIVE ScanLoop(_, _, _, _)
ScanLoop(s, st, n, srcErr_) ==
    IF n <= 0 \/ st.err # "run" THEN st
    ELSE IF n = 1 THEN ScanIter(s, st, srcErr_)
    ELSE ScanLoop(s, ScanLoop(s, st, n \div 2, srcErr_), n - (n \div 2), srcErr_)

\* a body loop that gives up one chunk early
BodyContinuesEarly(len) == len + 12 < maxFileSize

\* the condition of the loop "for len+8 < maxFileSize"
BodyContinues(len) == len + 8 < maxFileSize

\* an escape chunk followed by any chunk taken as the end of the file
FoundAnyEnd(chunk) == TRUE
\* an END accepted only with its last three bytes zero
FoundEndExact(chunk) == chunk = <<26, 0, 0, 0>>
\* "if buf[len] == 0x1a": the chunk after an escape chunk opens the END
FoundEnd(chunk) == chunk[1] = 26

\* a body loop that moves on by one byte after a chunk that is no escape chunk
BodyIterSliding(s, st, srcErr_) ==
    LET c1 == readChunk(s, st.pos, 4, srcErr_)
        c2 == readChunk(s, st.pos + 4, 4, srcErr_)
    IN  IF st.err # "run" THEN st
        ELSE IF ~BodyContinues(st.len) THEN [st EXCEPT !.err = ErrSequenceTooLong]
        ELSE IF c1.err # Nil THEN [st EXCEPT !.err = c1.err, !.pos = c1.pos, !.hi = st.len + 4]
        ELSE IF SubSeq(s, st.pos + 1, st.pos + 4) = escSeq
             THEN IF c2.err # Nil
                  THEN [st EXCEPT !.err = c2.err, !.pos = c2.pos, !.hi = st.len + 8]
                  ELSE IF FoundEnd(SubSeq(s, st.pos + 5, st.pos + 8))
                       THEN [len |-> st.len + 8, pos |-> c2.pos, err |-> Nil,
                             hi |-> st.len + 8]
                       ELSE [len |-> st.len + 4, pos |-> c2.pos,
                             err |-> ErrUnrecognizedSequence, hi |-> st.len + 8]
        ELSE [st EXCEPT !.len = st.len + 1, !.pos = st.pos + 1, !.hi = st.len + 4]

\* one iteration of the body loop: st is [len, pos, err, hi], err "run" while
\* the loop runs, else what readFile returns; hi is the end of the highest
\* slice of buf that was read into; c1 is the body chunk, c2 the chunk after
\* an escape chunk
BodyIter(s, st, srcErr_) ==
    LET c1 == readChunk(s, st.pos, 4, srcErr_)
        c2 == readChunk(s, st.pos + 4, 4, srcErr_)
    IN  IF st.err # "run" THEN st
        ELSE IF ~BodyContinues(st.len) THEN [st EXCEPT !.err = ErrSequenceTooLong]
        ELSE IF c1.err # Nil THEN [st EXCEPT !.err = c1.err, !.pos = c1.pos, !.hi = st.len + 4]
        ELSE IF SubSeq(s, st.pos + 1, st.pos + 4) = escSeq
             THEN IF c2.err # Nil
                  THEN [st EXCEPT !.err = c2.err, !.pos = c2.pos, !.hi = st.len + 8]
                  ELSE IF FoundEnd(SubSeq(s, st.pos + 5, st.pos + 8))
                       THEN [len |-> st.len + 8, pos |-> c2.pos, err |-> Nil,
                             hi |-> st.len + 8]
                       ELSE [len |-> st.len + 4, pos |-> c2.pos,
                             err |-> ErrUnrecognizedSequence, hi |-> st.len + 8]
        ELSE [st EXCEPT !.len = st.len + 4, !.pos = c1.pos, !.hi = st.len + 4]

\* n iterations of the body loop, one after the other
RECURSIVE BodyLoop(_, _, _, _)
BodyLoop(s, st, n, srcErr_) ==
    IF n <= 0 \/ st.err # "run" THEN st
    ELSE IF n = 1 THEN BodyIter(s, st, srcErr_)
    ELSE BodyLoop(s, BodyLoop(s, st, n \div 2, srcErr_), n - (n \div 2), srcErr_)

\* readFile on stream s with p bytes consumed: [err, pos, file, hi].  The file
\* is buf[:len]: the START the scan stored in buf[0:8], then the chunks read.
readFile(s, p, srcErr_) ==
    LET scan == ScanLoop(s, [len |-> 0, pos |-> p, err |-> "run"], Len(s) - p + 9, srcErr_)
        body == BodyLoop(s, [len |-> scan.len, pos |-> scan.pos, err |-> "run", hi |-> 8],
                         maxFileSize, srcErr_)
    IN  IF scan.err # Nil THEN [err |-> scan.err, pos |-> scan.pos, file |-> <<>>, hi |-> 8]
        ELSE IF body.err # Nil
             THEN [err |-> body.err, pos |-> body.pos, file |-> <<>>, hi |-> body.hi]
        ELSE [err |-> Nil, pos |-> body.pos,
              file |-> StartSeq \o SubSeq(s, scan.pos + 1, body.pos), hi |-> body.hi]

(***************************************************************************)
(* OBIS dispatch tree (gosml.go).  A tree is a function from the path of a *)
(* node (the bytes from the root) to the node's callbacks; a node has the  *)
(* child b iff the path extended by b is in the domain. A callback is      *)
(* named by the index of its registration.                                 *)
(***************************************************************************)
\* the nil *obisGroupCallback: no node at all
NoTree == [path \in {} |-> <<>>]

newObisGroupCallback == (<<>> :> <<>>)

\* oc.addCallback(subCode, callback) on the node at path; the child group
\* is made when it is not there
RECURSIVE addCallbackAt(_, _, _, _)
addCallbackAt(t, path, subCode, callback) ==
    IF Len(subCode) = 0
    THEN [t EXCEPT ![path] = Append(@, callback)]
    ELSE LET child == Append(path, subCode[1])
         IN  addCallbackAt(IF child \in DOMAIN t THEN t ELSE t @@ (child :> <<>>),
                           child, Tail(subCode), callback)

addCallback(t, subCode, callback) == addCallbackAt(t, <<>>, subCode, callback)

\* the callbacks of the descendants before the node's own
ChildrenFirst(own, sub) == [cbs |-> sub.cbs \o own, panic |-> sub.panic]
\* no descent into the child
NoDescent(own, sub) == [cbs |-> own, panic |-> FALSE]
\* the callbacks of a node, then those its descendant on the code invoked
Descended(own, sub) == [cbs |-> own \o sub.cbs, panic |-> sub.panic]

RECURSIVE callAt(_, _, _)
\* call without "if len(obisCode) == 0 { return }": obisCode[0] is read anyway
callAtUnchecked(t, path, obisCode) ==
    IF Len(obisCode) = 0 THEN [cbs |-> t[path], panic |-> TRUE]
    ELSE IF Append(path, obisCode[1]) \in DOMAIN t
         THEN Descended(t[path], callAt(t, Append(path, obisCode[1]), Tail(obisCode)))
    ELSE [cbs |-> t[path], panic |-> FALSE]
\* oc.call(obisCode, listEntry) on the node at path: the callbacks invoked,
\* in order, and whether the call ended in an index out of range
callAt(t, path, obisCode) ==
    IF Len(obisCode) = 0 THEN [cbs |-> t[path], panic |-> FALSE]
    ELSE IF Append(path, obisCode[1]) \in DOMAIN t
         THEN Descended(t[path], callAt(t, Append(path, obisCode[1]), Tail(obisCode)))
    ELSE [cbs |-> t[path], panic |-> FALSE]

\* a lookup that makes the child group when it is not there, as addCallback does
lookupOrMakeChild(t, path, b) ==
    IF Append(path, b) \in DOMAIN t THEN t ELSE t @@ (Append(path, b) :> <<>>)

\* "subOc, ok := oc.childGroups[obisCode[0]]": the tree after the lookup; a
\* map read with the comma-ok form leaves the map as it is
lookupChild(t, path, b) == t

\* the tree as oc.call(obisCode, listEntry) on the node at path leaves it:
\* ranging over oc.callbacks writes nothing, the lookup is the only access
\* to childGroups
RECURSIVE treeAfterCallAt(_, _, _)
treeAfterCallAt(t, path, obisCode) ==
    IF Len(obisCode) = 0 THEN t
    ELSE IF Append(path, obisCode[1]) \in DOMAIN t
         THEN treeAfterCallAt(lookupChild(t, path, obisCode[1]),
                              Append(path, obisCode[1]), Tail(obisCode))
    ELSE lookupChild(t, path, obisCode[1])

treeAfterCall(t, obisCode) == treeAfterCallAt(t, <<>>, obisCode)

call(t, obisCode) == callAt(t, <<>>, obisCode)

\* WithObisCallback applied to the options: the tree is made on first use
WithObisCallback(t, obisCode, callback) ==
    addCallback(IF DOMAIN t = {} THEN newObisGroupCallback ELSE t, obisCode, callback)

\* "for _, opt := range opts { opt(options) }": the first n options applied
RECURSIVE ApplyOptions(_, _)
ApplyOptions(o, n) ==
    IF n = 0 THEN NoTree ELSE WithObisCallback(ApplyOptions(o, n - 1), o[n], n)

(***************************************************************************)
(* Streams.  A stream is a sequence of at most MaxTokens pieces: whole     *)
(* frames built as the tests build them, and the fragments that make       *)
(* cut-off, misaligned and over-long transmissions.                        *)
(***************************************************************************)
RECURSIVE Flatten(_)
Flatten(ss) == IF ss = <<>> THEN <<>> ELSE Head(ss) \o Flatten(Tail(ss))

\* buildSMLFrame: the payload padded with zero bytes to a multiple of 4,
\* between START and END (pad count and CRC placeholder 0)
RECURSIVE PadTo4(_)
PadTo4(payload) == IF Len(payload) % 4 = 0 THEN payload ELSE PadTo4(Append(payload, 0))
buildSMLFrame(payload) == StartSeq \o PadTo4(payload) \o endSeq \o <<0, 0, 0>>

\* wire encodings of the elements the fixtures are made of: an entry is
\* {name, no status, no time, unit 30, scaler -1, value u16 2460, no signature}
EncEntry(objName) ==
    <<119, Len(objName) + 1>> \o objName \o <<1, 1, 98, 30, 82, 255, 99, 9, 156, 1>>
\* {no client id, server id AA, no list name, time {1, 12345}, entries, no
\* signature, no gateway time}
EncGetListResponse(objNames) ==
    <<119, 1, 2, 170, 1, 114, 98, 1, 101, 0, 0, 48, 57, 112 + Len(objNames)>>
        \o Flatten([i \in 1..Len(objNames) |-> EncEntry(objNames[i])]) \o <<1, 1>>
\* {transaction id 2A, group 0, abort 0, {tag, body}, crc 0}, end of message
EncMessage(tag, body) ==
    <<118, 2, 42, 98, 0, 98, 0, 114, 99>> \o tag \o body \o <<99, 0, 0, 0>>

ObisBezug == <<1, 0, 1, 8, 0, 255>>
ObisEinspeisung == <<1, 0, 2, 8, 0, 255>>
ObisShort == <<1, 0>>

\* what a valid frame holds: its messages in file order, each with its body
\* tag and, for a GetListResponse, the object names of its entries
GetList(names) == [tag |-> <<7, 1>>, names |-> names]
OpenResponse == [tag |-> <<1, 1>>, names |-> <<>>]

\* one GetListResponse; its second entry has no object name
ContentA == << GetList(<<ObisBezug, <<>>, ObisEinspeisung>>) >>
\* an OpenResponse and two GetListResponses
ContentB == << OpenResponse, GetList(<<ObisEinspeisung>>), GetList(<<ObisShort, ObisBezug>>) >>

ContentOf(t) == IF t = "A" THEN ContentA ELSE IF t = "B" THEN ContentB ELSE <<>>

EncContent(content) ==
    Flatten([m \in 1..Len(content) |->
                EncMessage(content[m].tag,
                           IF content[m].tag = <<7, 1>>
                           THEN EncGetListResponse(content[m].names)
                           ELSE <<118, 1, 1, 2, 187, 2, 170, 1, 1>>)])

\* the corrupt payload of TestParseFilePanicRecovery
PayloadCorrupt == <<118, 255, 255, 255>>
\* a good message, then a message cut off where its second field should
\* begin, at the very end of the payload
PayloadCut == EncContent(<< GetList(<<ObisBezug>>) >>) \o <<118, 2, 42>>
\* a good message, then a GetListResponse whose entry carries its scaler as
\* an unsigned: byte 87 of the payload, the TL of that scaler, is 0x62 where
\* EncEntry writes 0x52
PayloadMismatch ==
    [EncContent(<< GetList(<<ObisEinspeisung>>), GetList(<<ObisBezug>>) >>) EXCEPT ![87] = 98]

\* a body holding the 8 bytes of an END three times, at the offsets 1, 10 and
\* 19 from the end of START
PayloadUnaligned ==
    <<0>> \o endSeq \o <<0, 0, 0, 0>> \o endSeq \o <<0, 0, 0, 0>> \o endSeq \o <<0, 0, 0, 0>>

Tokens ==
    {"A", "B", "Corrupt", "Cut", "Mismatch", "Unaligned", "Start", "StartChunk", "End",
     "Byte", "Long", "Half", "TooLong"}

\* the pieces of the streams readFile is run on by itself: the START, body
\* chunks, an escape chunk, the chunk that closes an END, a single byte, and
\* bodies of 496 and of 492 zero bytes
FileTokens == {"Start", "Zero4", "Esc", "EndTail", "Byte", "Long", "Most"}

TokenBytes(t) ==
    CASE t = "A" -> buildSMLFrame(EncContent(ContentA))
      [] t = "B" -> buildSMLFrame(EncContent(ContentB))
      [] t = "Corrupt" -> buildSMLFrame(PayloadCorrupt)
      [] t = "Cut" -> buildSMLFrame(PayloadCut)
      [] t = "Mismatch" -> buildSMLFrame(PayloadMismatch)
      [] t = "Unaligned" -> buildSMLFrame(PayloadUnaligned)
      [] t = "Start" -> StartSeq
      [] t = "StartChunk" -> StartSeq \o <<0, 0, 0, 0>>
      [] t = "End" -> endSeq \o <<0, 0, 0>>
      [] t = "Byte" -> <<27>>
      [] t = "Long" -> Zeros(maxFileSize - 16)
      [] t = "Half" -> SubSeq(StartSeq, 1, 7)
      [] t = "TooLong" -> StartSeq \o Zeros(maxFileSize)
      [] t = "Zero4" -> <<0, 0, 0, 0>>
      [] t = "Esc" -> escSeq
      [] t = "EndTail" -> <<26, 0, 0, 0>>
      [] t = "Most" -> Zeros(maxFileSize - 20)

StreamOf(in) == Flatten([i \in 1..Len(in) |-> TokenBytes(in[i])])

Stream == StreamOf(input)

Inputs == UNION {[1..n -> Tokens] : n \in 0..MaxTokens}

FileInputs == UNION {[1..n -> FileTokens] : n \in 0..MaxPieces}

\* the callbacks registered: a wildcard, codes on one path, a sibling, the
\* same code twice, a code longer than any object name
FullOptions ==
    << <<1, 0, 1, 8, 0>>, <<>>, <<1, 0, 2, 8, 0>>, <<1, 0>>, <<1, 0, 1, 8, 0>>,
       <<1, 0, 1, 8, 0, 255, 7>>, <<>> >>

\* one callback, on a code that is a prefix of one object name of the
\* streams and of no other
SparseOptions == << <<1, 0, 1>> >>

OptionSets == {<<>>, FullOptions, SparseOptions}

\* the codes of the dispatch-tree specification
TreeCodes == {<<>>, <<1>>, <<1, 0>>, <<1, 0, 1>>, <<1, 0, 2>>, <<1, 0, 2, 8>>}

\* the sources of the readChunk specification
ChunkSources == UNION {[1..n -> {170, 187}] : n \in 0..MaxSrcLen}

(***************************************************************************)
(* Read (gosml.go).                                                        *)
(***************************************************************************)
\* the switch without the case that absorbs the two framing errors
ReadSwitchReturning(err) ==
    IF err = EOF THEN "break"
    ELSE IF err # Nil THEN "return"
    ELSE "parse"
\* the switch leaving the loop on every error that is not a framing error
ReadSwitchBreaking(err) ==
    IF err = ErrSequenceTooLong \/ err = ErrUnrecognizedSequence THEN "continue"
    ELSE IF err # Nil THEN "break"
    ELSE "parse"
\* the switch leaving the loop when a sequence is too long
ReadSwitchStopping(err) ==
    IF err = EOF \/ err = ErrSequenceTooLong THEN "break"
    ELSE IF err = ErrUnrecognizedSequence THEN "continue"
    ELSE IF err # Nil THEN "return"
    ELSE "parse"
\* the switch on readFile's error
ReadSwitch(err) ==
    IF err = EOF THEN "break"
    ELSE IF err = ErrSequenceTooLong \/ err = ErrUnrecognizedSequence THEN "continue"
    ELSE IF err # Nil THEN "return"
    ELSE "parse"

\* a loop that dispatches what was parsed whether the parse failed or not
DispatchAnyway(parseErr) == "dispatch"
\* the parse error handed to the caller
ReturnParseErr(parseErr) == IF parseErr # Nil THEN "return" ELSE "dispatch"
\* "if parseErr != nil { continue }"
AfterParse(parseErr) == IF parseErr # Nil THEN "continue" ELSE "dispatch"

\* parseFile called bare: its panic is the caller's
Unrecovered(file, r) ==
    IF Len(file) < 16 \/ r.err = "panic" THEN [msgs |-> <<>>, err |-> "panic"]
    ELSE IF r.err # Nil THEN [msgs |-> r.val, err |-> "parse error"]
    ELSE [msgs |-> r.val, err |-> Nil]
\* the deferred recover around the result r of parseFile: a panic in the
\* slicing or in the parser becomes the error "parse panic"
Recovered(file, r) ==
    IF Len(file) < 16 \/ r.err = "panic" THEN [msgs |-> <<>>, err |-> "parse panic"]
    ELSE IF r.err # Nil THEN [msgs |-> r.val, err |-> "parse error"]
    ELSE [msgs |-> r.val, err |-> Nil]

\* the slice taken without dropping the END
PayloadWithEnd(file) == SubSeq(file, 9, Len(file))
\* fileBytes[8 : len(fileBytes)-8]
Payload(file) == SubSeq(file, 9, Len(file) - 8)

\* the closure around parseFile: the payload is the file without its first
\* and last 8 bytes
TryParse(file) == Recovered(file, parseFile(Payload(file)))

NoCalls == [calls |-> <<>>, panic |-> FALSE]

\* the invocations one call makes, as records
Invoked(f, m, e, objName, c) ==
    [calls |-> [i \in 1..Len(c.cbs) |->
                   [frame |-> f, msg |-> m, entry |-> e, cb |-> c.cbs[i], obj |-> objName]],
     panic |-> c.panic]

\* the entry handed to call whatever its name
DispatchUnguarded(t, f, m, e, elem) == Invoked(f, m, e, elem.ObjName, call(t, elem.ObjName))
\* "if len(elem.ObjName) > 0 { options.topLevelCallback.call(elem.ObjName, elem) }"
DispatchEntry(t, f, m, e, elem) ==
    IF Len(elem.ObjName) > 0
    THEN Invoked(f, m, e, elem.ObjName, call(t, elem.ObjName))
    ELSE NoCalls

\* the invocations so far, then those of the next step; a panic ends them
Join(a, d) == [calls |-> a.calls \o d.calls, panic |-> d.panic]

\* "for _, elem := range list.ValList" from entry e on
RECURSIVE DispatchList(_, _, _, _, _, _)
DispatchList(t, f, m, e, list, acc) ==
    IF acc.panic \/ e > Len(list) THEN acc
    ELSE DispatchList(t, f, m, e + 1, list, Join(acc, DispatchEntry(t, f, m, e, list[e])))

\* whether msg.MessageBody.Data.(GetListResponse) succeeds
IsGetListResponse(data) == "ValList" \in DOMAIN data

\* the body of "for _, msg := range fileMessages" for message m
DispatchMessage(t, f, m, body) ==
    IF DOMAIN t # {} /\ body.Tag = MESSAGE_GET_LIST_RESPONSE /\ IsGetListResponse(body.Data)
    THEN DispatchList(t, f, m, 1, body.Data.ValList, NoCalls)
    ELSE NoCalls

\* the loop left at the first message that is no GetListResponse
RECURSIVE DispatchUntilOther(_, _, _, _, _)
DispatchUntilOther(t, f, m, msgs, acc) ==
    IF acc.panic \/ m > Len(msgs) THEN acc
    ELSE IF msgs[m].MessageBody.Tag # MESSAGE_GET_LIST_RESPONSE THEN acc
    ELSE DispatchUntilOther(t, f, m + 1, msgs,
                            Join(acc, DispatchMessage(t, f, m, msgs[m].MessageBody)))
\* "for _, msg := range fileMessages" from message m on
RECURSIVE DispatchMessages(_, _, _, _, _)
DispatchMessages(t, f, m, msgs, acc) ==
    IF acc.panic \/ m > Len(msgs) THEN acc
    ELSE DispatchMessages(t, f, m + 1, msgs,
                          Join(acc, DispatchMessage(t, f, m, msgs[m].MessageBody)))

\* Read from its loop on, run to its return on the stream s with the tree t:
\* st is [pos, frames, calls, log, files, ends, ret], the position in the
\* stream, the number of frames dispatched, the invocations made, the
\* outcomes in order, the files readFile returned, the positions at which
\* they end, and what Read returns
NoRun == [pos |-> 0, frames |-> 0, calls |-> <<>>, log |-> <<>>, files |-> <<>>,
          ends |-> {}, ret |-> "none"]

RECURSIVE ReadLoop(_, _, _, _)
ReadLoop(s, t, srcErr_, st) ==
    LET r == readFile(s, st.pos, srcErr_)
        sw == ReadSwitch(r.err)
        read == [st EXCEPT !.pos = r.pos,
                           !.log = Append(@, IF r.err = Nil THEN "file" ELSE r.err)]
        p == TryParse(r.file)
        got == [read EXCEPT !.files = Append(@, r.file), !.ends = @ \cup {r.pos}]
        d == DispatchMessages(t, st.frames + 1, 1, p.msgs, NoCalls)
    IN  IF sw = "break" THEN [read EXCEPT !.ret = Nil]
        ELSE IF sw = "return" THEN [read EXCEPT !.ret = r.err]
        ELSE IF sw = "continue" THEN ReadLoop(s, t, srcErr_, read)
        ELSE IF p.err = "panic" THEN [got EXCEPT !.ret = "panic"]
        ELSE IF AfterParse(p.err) = "continue"
             THEN ReadLoop(s, t, srcErr_, [got EXCEPT !.log = Append(@, p.err)])
        ELSE IF AfterParse(p.err) = "return"
             THEN [got EXCEPT !.log = Append(@, p.err), !.ret = p.err]
        ELSE IF d.panic
             THEN [got EXCEPT !.calls = @ \o d.calls, !.log = Append(@, "dispatched"),
                              !.ret = "panic"]
        ELSE ReadLoop(s, t, srcErr_,
                      [got EXCEPT !.calls = @ \o d.calls, !.frames = @ + 1,
                                  !.log = Append(@, "dispatched")])

\* the object names of the list entries of a frame's messages, by message
EntryNames(msgs) ==
    [m \in 1..Len(msgs) |->
        IF msgs[m].MessageBody.Tag = MESSAGE_GET_LIST_RESPONSE
           /\ IsGetListResponse(msgs[m].MessageBody.Data)
        THEN [e \in 1..Len(msgs[m].MessageBody.Data.ValList) |->
                 msgs[m].MessageBody.Data.ValList[e].ObjName]
        ELSE <<>>]

\* the tree after the calls of the dispatch loop on the entries named, in order
RECURSIVE TreeAfterCalls(_, _)
TreeAfterCalls(t, names) ==
    IF names = <<>> THEN t
    ELSE TreeAfterCalls(IF Len(Head(names)) > 0 THEN treeAfterCall(t, Head(names)) ELSE t,
                        Tail(names))

\* the tree after "for _, msg := range fileMessages"
TreeAfterDispatch(t, msgs) ==
    IF DOMAIN t = {} THEN t ELSE TreeAfterCalls(t, Flatten(EntryNames(msgs)))

NoCall == [called |-> FALSE, regs |-> <<>>, code |-> <<>>, cbs |-> <<>>, panic |-> FALSE]
NoChunk ==
    [orig |-> <<>>, src |-> <<>>, buf |-> <<>>, n |-> 0, reads |-> 0, err |-> Nil,
     ret |-> "run"]

Init ==
    /\ input \in Inputs
    /\ srcErr \in {EOF, IoError}
    /\ opts \in OptionSets
    /\ pc = "config"
    /\ pos = 0
    /\ tree = NoTree
    /\ fileBytes = <<>>
    /\ fileMessages = <<>>
    /\ ret = "none"
    /\ calls = <<>>
    /\ log = <<>>
    /\ parsed = <<>>
    /\ fired = NoCall
    /\ rd = NoChunk

\* Read, lines 182-185: the options are applied in order
Configure ==
    /\ pc = "config"
    /\ tree' = ApplyOptions(opts, Len(opts))
    /\ pc' = "readFile"
    /\ UNCHANGED <<input, srcErr, opts, pos, fileBytes, fileMessages, ret, calls,
                   log, parsed, fired, rd>>

\* the switch applied to the result r of readFile
ReadFileDone(r) ==
    /\ pos' = r.pos
    /\ log' = Append(log, IF r.err = Nil THEN "file" ELSE r.err)
    /\ pc' = CASE ReadSwitch(r.err) = "break" -> "done"
               [] ReadSwitch(r.err) = "continue" -> "readFile"
               [] ReadSwitch(r.err) = "return" -> "done"
               [] ReadSwitch(r.err) = "parse" -> "parseFile"
    /\ ret' = CASE ReadSwitch(r.err) = "break" -> Nil
                [] ReadSwitch(r.err) = "return" -> r.err
                [] OTHER -> ret
    /\ fileBytes' = IF ReadSwitch(r.err) = "parse" THEN r.file ELSE fileBytes

\* Read, lines 189-197: one readFile call and the switch on its error
ReadFileStep ==
    /\ pc = "readFile"
    /\ ReadFileDone(readFile(Stream, pos, srcErr))
    /\ UNCHANGED <<input, srcErr, opts, tree, fileMessages, calls, parsed, fired, rd>>

\* what follows the result r of the parse closure
ParseFileDone(r) ==
    IF r.err = "panic"
    THEN pc' = "done" /\ ret' = "panic" /\ UNCHANGED <<fileMessages, log>>
    ELSE /\ fileMessages' = r.msgs
         /\ log' = IF r.err # Nil THEN Append(log, r.err) ELSE log
         /\ pc' = CASE AfterParse(r.err) = "continue" -> "readFile"
                    [] AfterParse(r.err) = "return" -> "done"
                    [] AfterParse(r.err) = "dispatch" -> "dispatch"
         /\ ret' = IF AfterParse(r.err) = "return" THEN r.err ELSE ret

\* Read, lines 198-209: the recovered parse; a parse error ends the iteration;
\* a panic that was not recovered would end Read
ParseFileStep ==
    /\ pc = "parseFile"
    /\ ParseFileDone(TryParse(fileBytes))
    /\ UNCHANGED <<input, srcErr, opts, pos, tree, fileBytes, calls, parsed, fired, rd>>

\* the invocations d of the dispatch loop
DispatchDone(d) ==
    /\ calls' = calls \o d.calls
    /\ pc' = IF d.panic THEN "done" ELSE "readFile"
    /\ ret' = IF d.panic THEN "panic" ELSE ret

\* Read, lines 210-222: every entry of every GetListResponse of the frame is
\* dispatched; an index out of range in call would end Read
DispatchStep ==
    /\ pc = "dispatch"
    /\ DispatchDone(DispatchMessages(tree, Len(parsed) + 1, 1, fileMessages, NoCalls))
    /\ parsed' = Append(parsed, EntryNames(fileMessages))
    /\ log' = Append(log, "dispatched")
    /\ tree' = TreeAfterDispatch(tree, fileMessages)
    /\ UNCHANGED <<input, srcErr, opts, pos, fileBytes, fileMessages, fired, rd>>

Next == Configure \/ ReadFileStep \/ ParseFileStep \/ DispatchStep

Spec == Init /\ [][Next]_vars

\* what Read notes in log: the result of a readFile call, a failed parse, a
\* dispatch
Outcomes ==
    {"file", EOF, ErrUnexpectedEOF, IoError, ErrUnrecognizedSequence, ErrSequenceTooLong,
     "parse error", "parse panic", "dispatched"}

\* the control flow of a step of Read: it has not returned, it goes on to a
\* statement of the loop or returns, and it notes at most one outcome
Proceed ==
    /\ pc # "done"
    /\ pc' \in {"readFile", "parseFile", "dispatch", "done"}
    /\ log' \in {log} \cup {Append(log, o) : o \in Outcomes}

\* Read as a sequential program that is never blocked: as long as it has
\* not returned its next statement is executed (bufio.Reader.ReadByte and
\* io.ReadFull on a finite stream return, callbacks return).  Every step of
\* Next changes pc or log, so the fairness is stated on the control flow
SpecLive == Spec /\ WF_<<pc, log>>(Proceed)

(***************************************************************************)
(* The dispatch tree on its own: up to MaxRegs registrations, and calls    *)
(* with any code, as the unit tests make them.                             *)
(***************************************************************************)
InitTree ==
    /\ input = <<>>
    /\ srcErr = EOF
    /\ opts = <<>>
    /\ pc = "tree"
    /\ pos = 0
    /\ tree = NoTree
    /\ fileBytes = <<>>
    /\ fileMessages = <<>>
    /\ ret = "none"
    /\ calls = <<>>
    /\ log = <<>>
    /\ parsed = <<>>
    /\ fired = NoCall
    /\ rd = NoChunk

\* one more WithObisCallback / addCallback; the callback is named by its index
Register ==
    /\ pc = "tree"
    /\ Len(opts) < MaxRegs
    /\ \E code \in TreeCodes :
          /\ opts' = Append(opts, code)
          /\ tree' = WithObisCallback(tree, code, Len(opts) + 1)
    /\ UNCHANGED <<input, srcErr, pc, pos, fileBytes, fileMessages, ret, calls, log,
                   parsed, fired, rd>>

\* topLevelCallback.call(code, entry), and what it invoked
Call ==
    /\ pc = "tree"
    /\ DOMAIN tree # {}
    /\ \E code \in TreeCodes :
          /\ fired' = [called |-> TRUE, regs |-> opts, code |-> code,
                       cbs |-> call(tree, code).cbs, panic |-> call(tree, code).panic]
          /\ tree' = treeAfterCall(tree, code)
    /\ UNCHANGED <<input, srcErr, opts, pc, pos, fileBytes, fileMessages, ret,
                   calls, log, parsed, rd>>

NextTree == Register \/ Call

SpecTree == InitTree /\ [][NextTree]_vars

(***************************************************************************)
(* readChunk on its own: io.ReadFull on a destination of 4 bytes over a    *)
(* source that hands out its bytes in pieces of any length.                *)
(***************************************************************************)
InitChunk ==
    /\ input = <<>>
    /\ srcErr \in {EOF, IoError}
    /\ opts = <<>>
    /\ pc = "chunk"
    /\ pos = 0
    /\ tree = NoTree
    /\ fileBytes = <<>>
    /\ fileMessages = <<>>
    /\ ret = "none"
    /\ calls = <<>>
    /\ log = <<>>
    /\ parsed = <<>>
    /\ fired = NoCall
    /\ \E s \in ChunkSources : rd = [NoChunk EXCEPT !.orig = s, !.src = s, !.buf = Zeros(4)]

\* one iteration of the loop: a Read that yields 1 to len(buf)-n bytes
ReadSome ==
    /\ pc = "chunk" /\ rd.ret = "run"
    /\ ReadFullContinues(rd)
    /\ rd.src # <<>>
    /\ \E k \in 1..(Len(rd.buf) - rd.n) : k <= Len(rd.src) /\ rd' = ReadPiece(rd, k)
    /\ UNCHANGED <<input, srcErr, opts, pc, pos, tree, fileBytes, fileMessages, ret,
                   calls, log, parsed, fired>>

\* one iteration of the loop: a Read on the drained source
ReadDrained ==
    /\ pc = "chunk" /\ rd.ret = "run"
    /\ ReadFullContinues(rd)
    /\ rd.src = <<>>
    /\ rd' = [rd EXCEPT !.err = srcErr, !.reads = @ + 1]
    /\ UNCHANGED <<input, srcErr, opts, pc, pos, tree, fileBytes, fileMessages, ret,
                   calls, log, parsed, fired>>

\* the loop is left and readChunk returns
ReadChunkReturn ==
    /\ pc = "chunk" /\ rd.ret = "run"
    /\ ~ReadFullContinues(rd)
    /\ rd' = [rd EXCEPT !.ret = ReadFullResult(rd)]
    /\ UNCHANGED <<input, srcErr, opts, pc, pos, tree, fileBytes, fileMessages, ret,
                   calls, log, parsed, fired>>

NextChunk == ReadSome \/ ReadDrained \/ ReadChunkReturn

SpecChunk == InitChunk /\ [][NextChunk]_vars

(***************************************************************************)
(* readFile on its own: called again and again on one reader, as Read      *)
(* calls it, each returned file sliced as Read slices it; rd holds the end *)
(* of the highest slice of buf read into and the payload sliced.           *)
(***************************************************************************)
InitFile ==
    /\ input \in FileInputs
    /\ srcErr \in {EOF, IoError}
    /\ opts = <<>>
    /\ pc = "file"
    /\ pos = 0
    /\ tree = NoTree
    /\ fileBytes = <<>>
    /\ fileMessages = <<>>
    /\ ret = "none"
    /\ calls = <<>>
    /\ log = <<>>
    /\ parsed = <<>>
    /\ fired = NoCall
    /\ rd = [hi |-> 0, payload |-> <<>>]

\* the result r of readFile taken up; the reader is used up after any error
\* that is not one of readFile's own
ReadFileResult(r) ==
    /\ pos' = r.pos
    /\ ret' = r.err
    /\ fileBytes' = r.file
    /\ log' = Append(log, IF r.err = Nil THEN "file" ELSE r.err)
    /\ rd' = [rd EXCEPT !.hi = r.hi]
    /\ pc' = IF r.err = Nil THEN "slice"
             ELSE IF r.err \in {ErrSequenceTooLong, ErrUnrecognizedSequence} THEN "file"
             ELSE "end"

\* fileBytes, err := readFile(r)
ReadFileCall ==
    /\ pc = "file"
    /\ ReadFileResult(readFile(Stream, pos, srcErr))
    /\ UNCHANGED <<input, srcErr, opts, tree, fileMessages, calls, parsed, fired>>

\* fileBytes[8 : len(fileBytes)-8], the argument of parseFile
Slice ==
    /\ pc = "slice"
    /\ rd' = [rd EXCEPT !.payload = Payload(fileBytes)]
    /\ pc' = "file"
    /\ UNCHANGED <<input, srcErr, opts, pos, tree, fileBytes, fileMessages, ret, calls,
                   log, parsed, fired>>

NextFile == ReadFileCall \/ Slice

SpecFile == InitFile /\ [][NextFile]_vars

(***************************************************************************)
(* The accessors of a ListEntry on their own, called on entries as the     *)
(* unit tests build them: every scaler, every Typ byte, values of either   *)
(* sign, object names of 0 to 7 bytes.  rd holds the entry, the accessor   *)
(* called and what it returned.                                            *)
(***************************************************************************)
\* the 8 bytes of the int64 v, for |v| < 2^31
EncInt64(v) ==
    [i \in 1..8 |-> IF i <= 4 THEN (IF v < 0 THEN 255 ELSE 0)
                    ELSE (v \div (256 ^ (8 - i))) % 256]
\* the byte of the int8 s
EncInt8(s) == (s + 256) % 256

SampleInts == {0, 1, 2460, 12345, -1, -2460}
SampleScalers == {0, 3, -1, -2, 127, -128}
SampleNames ==
    [1..6 -> {0, 10, 255}]
        \cup {<<>>, ObisShort, <<1, 0, 1, 8, 0>>, ObisBezug, ObisEinspeisung,
              <<1, 0, 16, 7, 0, 255>>, <<9, 99, 100, 101, 199, 200>>,
              <<1, 0, 1, 8, 0, 255, 7>>}

\* &ListEntry{ObjName: name, scaler: s, Value: Value{Typ: typ, DataInt: v}}
EntryOf(name, s, typ, v) ==
    [ZeroEntry EXCEPT !.ObjName = name, !.scaler = <<EncInt8(s)>>,
                      !.Value = [ZeroValue EXCEPT !.Typ = typ, !.DataInt = EncInt64(v)]]

Entries ==
    {EntryOf(ObisBezug, s, OCTET_TYPE_INTEGER + TYPE_NUMBER_32, v) :
        s \in -128..127, v \in SampleInts}
    \cup {EntryOf(ObisBezug, s, typ, v) : s \in SampleScalers, typ \in 0..255, v \in SampleInts}
    \cup {EntryOf(name, 0, OCTET_TYPE_UNSIGNED + TYPE_NUMBER_32, 12345) : name \in SampleNames}

InitEntry ==
    /\ input = <<>>
    /\ srcErr = EOF
    /\ opts = <<>>
    /\ pc = "entry"
    /\ pos = 0
    /\ tree = NoTree
    /\ fileBytes = <<>>
    /\ fileMessages = <<>>
    /\ ret = "none"
    /\ calls = <<>>
    /\ log = <<>>
    /\ parsed = <<>>
    /\ fired = NoCall
    /\ \E le \in Entries : rd = [entry |-> le, op |-> "none", out |-> "none"]

\* le.Scaler()
CallScaler ==
    /\ pc = "entry" /\ rd.op = "none"
    /\ rd' = [rd EXCEPT !.op = "Scaler", !.out = Scaler(rd.entry)]
    /\ UNCHANGED <<input, srcErr, opts, pc, pos, tree, fileBytes, fileMessages, ret,
                   calls, log, parsed, fired>>

\* le.Float()
CallFloat ==
    /\ pc = "entry" /\ rd.op = "none"
    /\ rd' = [rd EXCEPT !.op = "Float", !.out = Float(rd.entry)]
    /\ UNCHANGED <<input, srcErr, opts, pc, pos, tree, fileBytes, fileMessages, ret,
                   calls, log, parsed, fired>>

\* le.ObjectName()
CallObjectName ==
    /\ pc = "entry" /\ rd.op = "none"
    /\ rd' = [rd EXCEPT !.op = "ObjectName", !.out = ObjectName(rd.entry)]
    /\ UNCHANGED <<input, srcErr, opts, pc, pos, tree, fileBytes, fileMessages, ret,
                   calls, log, parsed, fired>>

NextEntry == CallScaler \/ CallFloat \/ CallObjectName

SpecEntry == InitEntry /\ [][NextEntry]_vars

(***************************************************************************)
(* parseFile on its own, called on payloads put together from up to        *)
(* MaxParts parts: a GetListResponse message, an OpenResponse message, a   *)
(* zero byte, a message that fails with an error, and a message cut off    *)
(* after its first field.  input holds the parts, rd the payload and what  *)
(* parseFile returned.                                                     *)
(***************************************************************************)
Parts == {"List", "Open", "Zero", "Bad", "Short"}

PartBytes(part) ==
    CASE part = "List" -> EncContent(<< GetList(<<ObisBezug>>) >>)
      [] part = "Open" -> EncContent(<< OpenResponse >>)
      [] part = "Zero" -> <<0>>
      [] part = "Bad" -> SubSeq(PayloadMismatch, 50, Len(PayloadMismatch))
      [] part = "Short" -> <<118, 2, 42>>

PayloadOf(parts) == Flatten([i \in 1..Len(parts) |-> PartBytes(parts[i])])

InitParse ==
    /\ input \in UNION {[1..n -> Parts] : n \in 0..MaxParts}
    /\ srcErr = EOF
    /\ opts = <<>>
    /\ pc = "parse"
    /\ pos = 0
    /\ tree = NoTree
    /\ fileBytes = <<>>
    /\ fileMessages = <<>>
    /\ ret = "none"
    /\ calls = <<>>
    /\ log = <<>>
    /\ parsed = <<>>
    /\ fired = NoCall
    /\ rd = [payload |-> PayloadOf(input), op |-> "none", out |-> "none"]

\* messages, err := parseFile(payload)
CallParseFile ==
    /\ pc = "parse" /\ rd.op = "none"
    /\ rd' = [rd EXCEPT !.op = "parseFile", !.out = parseFile(rd.payload)]
    /\ UNCHANGED <<input, srcErr, opts, pc, pos, tree, fileBytes, fileMessages, ret,
                   calls, log, parsed, fired>>

NextParse == CallParseFile

SpecParse == InitParse /\ [][NextParse]_vars

(***************************************************************************)
(* The START scan of readFile on its own, one iteration of its loop at a   *)
(* time, on every source of up to MaxScanLen bytes 1B and 01 and every     *)
(* shorter source of bytes 1B, 01 and 00.  rd holds the source, the        *)
(* progress len, the number of bytes read and the state of the loop.       *)
(***************************************************************************)
ScanSources ==
    UNION {[1..n -> {27, 1}] : n \in 0..MaxScanLen}
        \cup UNION {[1..n -> {27, 1, 0}] : n \in 0..(MaxScanLen \div 2 + 1)}

InitScan ==
    /\ input = <<>>
    /\ srcErr \in {EOF, IoError}
    /\ opts = <<>>
    /\ pc = "scan"
    /\ pos = 0
    /\ tree = NoTree
    /\ fileBytes = <<>>
    /\ fileMessages = <<>>
    /\ ret = "none"
    /\ calls = <<>>
    /\ log = <<>>
    /\ parsed = <<>>
    /\ fired = NoCall
    /\ \E s \in ScanSources : rd = [src |-> s, len |-> 0, pos |-> 0, err |-> "run"]

\* readFile, lines 52-62: the loop condition, ReadByte and the comparison
ScanIteration ==
    /\ pc = "scan" /\ rd.err = "run"
    /\ rd' = ScanIter(rd.src, rd, srcErr)
    /\ UNCHANGED <<input, srcErr, opts, pc, pos, tree, fileBytes, fileMessages, ret,
                   calls, log, parsed, fired>>

NextScan == ScanIteration

SpecScan == InitScan /\ [][NextScan]_vars

(***************************************************************************)
(* The parsers of the TLV buffer on their own, called on a Buffer{Bytes,   *)
(* Cursor} as the unit tests build them: the buffers of the tests and      *)
(* every buffer of up to MaxBufLen bytes over ByteSample, the cursor on    *)
(* any of its bytes or at its end.  rd holds the buffer, the cursor, the   *)
(* parser called, its arguments and what it returned.                      *)
(***************************************************************************)
\* TL bytes of every family, the skipped sentinel, and data bytes
ByteSample == {0, 1, 2, 66, 82, 98, 99, 254}

\* the buffers of TestU8Parse .. TestOptionalIsNotSkipped
TestBuffers ==
    { <<98, 66>>, <<99, 1, 0>>, <<101, 0, 1, 0, 0>>, <<82, 254>>,
      <<89, 255, 255, 255, 255, 255, 255, 255, 255>>, <<82, 0>>, <<82, 127>>,
      <<82, 128>>, <<1>>, <<66, 1>>, <<66, 0>>, <<4, 65, 66, 67>>,
      <<101, 0, 0, 1, 0>>, <<3, 170, 187>>, <<1, 98>> }

Buffers ==
    TestBuffers \cup UNION {[1..n -> ByteSample] : n \in 0..MaxBufLen}

IntegerParsers == {"U8Parse", "U16Parse", "U32Parse", "I8Parse", "I64Parse", "StatusParse"}

IntegerParse(p, B, c) ==
    CASE p = "U8Parse" -> U8Parse(B, c)
      [] p = "U16Parse" -> U16Parse(B, c)
      [] p = "U32Parse" -> U32Parse(B, c)
      [] p = "I8Parse" -> I8Parse(B, c)
      [] p = "I64Parse" -> I64Parse(B, c)
      [] p = "StatusParse" -> StatusParse(B, c)

NoParse == [op |-> "none", typ |-> 0, size |-> 0, out |-> "none"]

InitBuffer ==
    /\ input = <<>>
    /\ srcErr = EOF
    /\ opts = <<>>
    /\ pc = "buffer"
    /\ pos = 0
    /\ tree = NoTree
    /\ fileBytes = <<>>
    /\ fileMessages = <<>>
    /\ ret = "none"
    /\ calls = <<>>
    /\ log = <<>>
    /\ parsed = <<>>
    /\ fired = NoCall
    /\ \E B \in Buffers : \E c \in 0..Len(B) :
           rd = [buf |-> B, cur |-> c, call |-> NoParse]

\* the parser returned: rd.call is what was called and what came back
Returned(op, typ, size, out) ==
    /\ pc = "buffer" /\ rd.call.op = "none"
    /\ rd' = [rd EXCEPT !.call = [op |-> op, typ |-> typ, size |-> size, out |-> out]]
    /\ UNCHANGED <<input, srcErr, opts, pc, pos, tree, fileBytes, fileMessages, ret,
                   calls, log, parsed, fired>>

\* buf.OptionalIsSkipped()
CallOptionalIsSkipped ==
    Returned("OptionalIsSkipped", 0, 0, OptionalIsSkipped(rd.buf, rd.cur))

\* buf.U8Parse(), buf.U16Parse(), buf.U32Parse(), buf.I8Parse(), buf.I64Parse(),
\* buf.StatusParse()
CallIntegerParse ==
    \E p \in IntegerParsers : Returned(p, 0, 0, IntegerParse(p, rd.buf, rd.cur))

\* buf.NumberParse(typ, maxSize)
CallNumberParse ==
    \E typ \in {OCTET_TYPE_INTEGER, OCTET_TYPE_UNSIGNED} :
        \E size \in {TYPE_NUMBER_8, TYPE_NUMBER_16, TYPE_NUMBER_32, TYPE_NUMBER_64} :
            Returned("NumberParse", typ, size, NumberParse(rd.buf, rd.cur, typ, size))

\* buf.BooleanParse()
CallBooleanParse ==
    Returned("BooleanParse", 0, 0, BooleanParse(rd.buf, rd.cur))

\* buf.OctetStringParse()
CallOctetStringParse ==
    Returned("OctetStringParse", 0, 0, OctetStringParse(rd.buf, rd.cur))

\* buf.ValueParse()
CallValueParse ==
    Returned("ValueParse", 0, 0, ValueParse(rd.buf, rd.cur))

NextBuffer ==
    \/ CallOptionalIsSkipped
    \/ CallIntegerParse
    \/ CallNumberParse
    \/ CallBooleanParse
    \/ CallOctetStringParse
    \/ CallValueParse

SpecBuffer == InitBuffer /\ [][NextBuffer]_vars

(***************************************************************************)
(* ListParse on its own, called at the val-list position of a buffer: the  *)
(* TL of the val-list (or another byte in its place), up to MaxEntries     *)
(* encoded entries, then the skipped list signature and gateway time that  *)
(* end a GetListResponse.  input holds the TL and the kinds of the         *)
(* entries, rd the buffer, the cursor and what ListParse returned.         *)
(***************************************************************************)
\* an entry with every field present: {name 1-0:1.8.0*255, status 0x0182,
\* time {1, 12345}, unit 30, scaler -1, value i32 2460, signature AB CD}
EncFullEntry ==
    <<119, 7>> \o ObisBezug \o <<99, 1, 130, 114, 98, 1, 101, 0, 0, 48, 57, 98, 30,
                                 82, 255, 85, 0, 0, 9, 156, 3, 171, 205>>

\* the entries a val-list is made of: three that parse (every field present;
\* the optional ones skipped; no name either), a list-of-6, an entry whose
\* scaler is unsigned, and an entry cut off after its status
EntryKinds == {"Full", "Plain", "NoName", "Six", "Unsigned", "CutOff"}

EntryBytes(kind) ==
    CASE kind = "Full" -> EncFullEntry
      [] kind = "Plain" -> EncEntry(ObisEinspeisung)
      [] kind = "NoName" -> EncEntry(<<>>)
      [] kind = "Six" -> [EncEntry(ObisBezug) EXCEPT ![1] = 118]
      [] kind = "Unsigned" -> [EncEntry(ObisBezug) EXCEPT ![13] = 98]
      [] kind = "CutOff" -> SubSeq(EncEntry(ObisBezug), 1, 9)

\* what stands at the val-list position: the skipped byte, the TL of an
\* octet string, the TL of an unsigned, and the TL of a list of n elements
\* in one byte (0x7n) and in two (0xF0 0x0n)
ListHeads ==
    {<<1>>, <<2>>, <<98>>}
        \cup {<<112 + n>> : n \in 0..(MaxEntries + 1)}
        \cup {<<240, n>> : n \in 0..(MaxEntries + 1)}

ListBytes(head, kinds) ==
    head \o Flatten([i \in 1..Len(kinds) |-> EntryBytes(kinds[i])]) \o <<1, 1>>

InitList ==
    /\ input \in [head : ListHeads, kinds : UNION {[1..n -> EntryKinds] : n \in 0..MaxEntries}]
    /\ srcErr = EOF
    /\ opts = <<>>
    /\ pc = "list"
    /\ pos = 0
    /\ tree = NoTree
    /\ fileBytes = <<>>
    /\ fileMessages = <<>>
    /\ ret = "none"
    /\ calls = <<>>
    /\ log = <<>>
    /\ parsed = <<>>
    /\ fired = NoCall
    /\ \E c \in {0, 1} :
          rd = [buf |-> SubSeq(<<1>>, 1, c) \o ListBytes(input.head, input.kinds),
                cur |-> c, op |-> "none", out |-> "none"]

\* GetListResponseParse, line 87: list.ValList, err = ListParse(buf), the
\* val-list field of the response
CallListParse ==
    /\ pc = "list" /\ rd.op = "none"
    /\ rd' = [rd EXCEPT !.op = "ListParse", !.out = Field(rd.buf, rd.cur, "list")]
    /\ UNCHANGED <<input, srcErr, opts, pc, pos, tree, fileBytes, fileMessages, ret,
                   calls, log, parsed, fired>>

NextList == CallListParse

SpecList == InitList /\ [][NextList]_vars

(***************************************************************************)
(* What the callbacks should be, stated from the contents of the stream    *)
(* and the registrations alone.                                            *)
(***************************************************************************)
IsPrefix(p, s) == Len(p) <= Len(s) /\ SubSeq(s, 1, Len(p)) = p

\* how often x occurs in seq
Times(seq, x) == Cardinality({k \in 1..Len(seq) : seq[k] = x})

\* the registrations under exactly this code, in registration order
RegsAt(o, code) == SelectSeq([i \in 1..Len(o) |-> i], LAMBDA i : o[i] = code)

\* the registrations under a prefix of the name: shorter prefix first
MatchingRegs(o, name) ==
    Flatten([k \in 1..(Len(name) + 1) |-> RegsAt(o, SubSeq(name, 1, k - 1))])

ExpectedEntry(o, f, m, e, name) ==
    IF name = <<>> THEN <<>>
    ELSE [i \in 1..Len(MatchingRegs(o, name)) |->
             [frame |-> f, msg |-> m, entry |-> e, cb |-> MatchingRegs(o, name)[i],
              obj |-> name]]

ExpectedMessage(o, f, m, names) ==
    Flatten([e \in 1..Len(names) |-> ExpectedEntry(o, f, m, e, names[e])])

ExpectedFrame(o, f, content) ==
    Flatten([m \in 1..Len(content) |-> ExpectedMessage(o, f, m, content[m].names)])

IsValidToken(t) == t \in {"A", "B"}
IsCorruptToken(t) == t \in {"Corrupt", "Cut"}

\* the valid files of a stream, in stream order
ValidFiles(in) == SelectSeq(in, IsValidToken)

\* the callbacks of the valid files of a stream, in order
ExpectedCalls(o, in) ==
    Flatten([f \in 1..Len(ValidFiles(in)) |->
                ExpectedFrame(o, f, ContentOf(ValidFiles(in)[f]))])

\* the stream is made of framed files only, each valid or corrupt inside
OnlyFiles(in) == \A i \in 1..Len(in) : IsValidToken(in[i]) \/ IsCorruptToken(in[i])

(***************************************************************************)
(* C1.  Read returns nil for every finite stream whose source reports only *)
(* end-of-input, wherever the stream ends: before any START, at a frame    *)
(* boundary, or part-way through a frame body or END sequence.             *)
(* Specification Spec.  Violated: a stream that ends inside a 4-byte chunk *)
(* makes readChunk return io.ErrUnexpectedEOF, which Read returns.         *)
(***************************************************************************)
C1_ReadReturnsNilOnEndOfInput == (pc = "done" /\ srcErr = EOF) => ret = Nil

(***************************************************************************)
(* C2.  Read never panics because of stream content: a fault raised while  *)
(* parsing one frame's payload, a returned parse error or a panic, becomes *)
(* a recoverable error; exactly that frame is discarded (no callback, no   *)
(* return) and the loop goes on to the next readFile call.                 *)
(* Specification Spec.                                                     *)
(***************************************************************************)
PayloadFaulty(file) ==
    Len(file) < 16 \/ parseFile(SubSeq(file, 9, Len(file) - 8)).err # Nil

C2_ParseFaultIsolated ==
    [][/\ ret' # "panic"
       /\ (pc = "parseFile" /\ PayloadFaulty(fileBytes))
             => /\ pc' = "readFile"
                /\ ret' = "none"
                /\ calls' = calls
                /\ parsed' = parsed
                /\ log' \in {Append(log, "parse error"), Append(log, "parse panic")}]_vars

\* a payload panicked, and a later frame of the same stream was dispatched
C2_Witness ==
    \E i, j \in 1..Len(log) : i < j /\ log[i] = "parse panic" /\ log[j] = "dispatched"

(***************************************************************************)
(* C3.  Read never returns ErrUnrecognizedSequence, ErrSequenceTooLong, a  *)
(* parse error or a recovered panic: after each of these outcomes the      *)
(* driver loop continues with the next readFile call.                      *)
(* Specification Spec.                                                     *)
(***************************************************************************)
Absorbed == {ErrUnrecognizedSequence, ErrSequenceTooLong, "parse error", "parse panic"}

C4_CorruptFileSkipped ==
    (pc = "done" /\ OnlyFiles(input))
        => /\ calls = ExpectedCalls(opts, input)
           /\ srcErr = EOF => ret = Nil

\* a corrupt file, then a valid file whose callbacks were all invoked
C4_Witness ==
    /\ pc = "done" /\ ret = Nil
    /\ Len(input) = 2 /\ IsCorruptToken(input[1]) /\ IsValidToken(input[2])
    /\ calls # <<>>

(***************************************************************************)
(* C5.  If a frame is cut off (START followed by a whole number of 4-byte  *)
(* body chunks, with no END) and a complete valid frame follows at once,   *)
(* Read still delivers every callback of the valid frame, and the cut-off  *)
(* frame causes no callback and no returned error.                         *)
(* Specification Spec.  Violated: the START of the valid frame is read as  *)
(* an escape chunk of the cut-off frame, readFile returns                  *)
(* ErrUnrecognizedSequence with that START consumed, and the valid frame   *)
(* is never extracted.                                                     *)
(***************************************************************************)
C5_ResyncAfterCutOffFrame ==
    (/\ pc = "done"
     /\ Len(input) = 2 /\ input[1] \in {"Start", "StartChunk"} /\ IsValidToken(input[2]))
        => /\ calls = ExpectedCalls(opts, input)
           /\ srcErr = EOF => ret = Nil

(***************************************************************************)
(* C6.  readChunk fills the whole destination or fails: over a source that *)
(* delivers its data in arbitrary short pieces, readChunk returns nil only *)
(* after the destination holds the next len(dst) bytes of the stream in    *)
(* order, and returns an error when the stream ends before the destination *)
(* is full.  The result is that of readChunk as readFile uses it.          *)
(* Specification SpecChunk.                                                *)
(***************************************************************************)
C6_ReadChunkFillsOrFails ==
    (pc = "chunk" /\ rd.ret # "run")
        => /\ rd.ret = Nil <=> Len(rd.orig) >= Len(rd.buf)
           /\ rd.ret = Nil => (rd.n = Len(rd.buf) /\ rd.buf = SubSeq(rd.orig, 1, Len(rd.buf)))
           /\ rd.ret = readChunk(rd.orig, 0, Len(rd.buf), srcErr).err

\* a destination filled one byte per read
C6_Witness == pc = "chunk" /\ rd.ret = Nil /\ rd.reads = Len(rd.buf) /\ rd.buf = <<170, 187, 187, 170>>

(***************************************************************************)
(* C7.  Dispatch fires a registered callback if and only if its registered *)
(* code is a prefix of the dispatched code (the empty code and the full    *)
(* code included), exactly once per registration; callbacks under a        *)
(* sibling code or under a longer code do not fire.                        *)
(* Specification SpecTree.                                                 *)
(***************************************************************************)
C7_FiresExactlyThePrefixes ==
    fired.called
        => \A i \in 1..Len(fired.regs) :
              Times(fired.cbs, i) = IF IsPrefix(fired.regs[i], fired.code) THEN 1 ELSE 0

\* siblings registered, a longer code dispatched: only the second fires
C7_Witness ==
    /\ fired.called
    /\ fired.regs = << <<1, 0, 1>>, <<1, 0, 2>> >>
    /\ fired.code = <<1, 0, 2, 8>>
    /\ fired.cbs = <<2>>

(***************************************************************************)
(* C8.  Callback ordering: frame by frame in stream order, within a frame  *)
(* message by message, within a GetListResponse entry by entry; for one    *)
(* entry a shorter registered prefix (the root first) before a longer one, *)
(* and registrations under the same code in registration order.            *)
(* Specification Spec.                                                     *)
(***************************************************************************)
CallKey(c) == <<c.frame, c.msg, c.entry, Len(opts[c.cb]), c.cb>>

KeyBefore(a, b) == \E k \in 1..5 : a[k] < b[k] /\ \A j \in 1..(k - 1) : a[j] = b[j]

C8_CallbackOrder ==
    /\ \A i \in 1..(Len(calls) - 1) : KeyBefore(CallKey(calls[i]), CallKey(calls[i + 1]))
    /\ \A i \in 1..Len(calls) :
          /\ calls[i].frame <= Len(parsed)
          /\ calls[i].obj = parsed[calls[i].frame][calls[i].msg][calls[i].entry]
    /\ (pc = "done" /\ \A i \in 1..Len(input) : IsValidToken(input[i]))
          => parsed = [f \in 1..Len(input) |->
                          [m \in 1..Len(ContentOf(input[f])) |-> ContentOf(input[f])[m].names]]

\* two frames after one another, callbacks of every kind
C8_Witness ==
    /\ pc = "done" /\ input = <<"B", "A">> /\ opts = FullOptions
    /\ Len(calls) > Len(FullOptions)

(***************************************************************************)
(* C9.  Dispatching an empty OBIS code never indexes past the end of the   *)
(* code: it fires exactly the callbacks registered at the root, none       *)
(* registered under a non-empty code, and returns; descent stops without   *)
(* fault as soon as the code is exhausted.                                 *)
(* Specification SpecTree.                                                 *)
(***************************************************************************)
C9_EmptyCodeFiresRootOnly ==
    fired.called
        => /\ ~fired.panic
           /\ fired.code = <<>> => fired.cbs = RegsAt(fired.regs, <<>>)

\* an empty code dispatched on a tree with root and deeper registrations
C9_Witness ==
    /\ fired.called /\ fired.code = <<>>
    /\ fired.cbs # <<>>
    /\ Len(fired.cbs) < Len(fired.regs)

(***************************************************************************)
(* C10.  A callback registered with the empty code is invoked by Read      *)
(* exactly once for every list entry with a non-empty object name in every *)
(* GetListResponse of a frame whose payload parsed (the frames that reach  *)
(* the dispatch loop); an entry whose object name is empty is passed to no *)
(* callback, the wildcard included.                                        *)
(* Specification Spec.                                                     *)
(***************************************************************************)
CallsFor(f, m, e) ==
    SelectSeq(calls, LAMBDA c : c.frame = f /\ c.msg = m /\ c.entry = e)

IsDispatched(msg) ==
    /\ msg.MessageBody.Tag = MESSAGE_GET_LIST_RESPONSE
    /\ IsGetListResponse(msg.MessageBody.Data)

\* the invocations among cs made for message m
CallsOfMessage(cs, m) == SelectSeq(cs, LAMBDA c : c.msg = m)

C11_OnlyGetListResponseDispatched ==
    [][pc = "dispatch" =>
          /\ Len(calls') >= Len(calls)
          /\ SubSeq(calls', 1, Len(calls)) = calls
          /\ \A m \in 1..Len(fileMessages) :
                CallsOfMessage(SubSeq(calls', Len(calls) + 1, Len(calls')), m)
                    = IF IsDispatched(fileMessages[m])
                      THEN ExpectedMessage(opts, Len(parsed) + 1, m,
                                           EntryNames(fileMessages)[m])
                      ELSE <<>>
          /\ \A k \in (Len(calls) + 1)..Len(calls') :
                calls'[k].msg \in 1..Len(fileMessages)]_vars

\* a dispatched frame whose first message is an OpenResponse and whose second
\* and third messages, both GetListResponses, got their callbacks
C11_Witness ==
    /\ pc = "readFile" /\ log # <<>> /\ log[Len(log)] = "dispatched"
    /\ Len(fileMessages) = 3
    /\ fileMessages[1].MessageBody.Tag = <<0, 0, 1, 1>>
    /\ ~IsDispatched(fileMessages[1])
    /\ CallsOfMessage(calls, 1) = <<>>
    /\ CallsOfMessage(calls, 2) # <<>>
    /\ CallsOfMessage(calls, 3) # <<>>

(***************************************************************************)
(* C12.  When the underlying reader fails with an error other than         *)
(* end-of-input, in the START scan or in a chunk read, Read returns that   *)
(* error at once: the readFile call that meets the error is the last step  *)
(* that changes anything, it invokes no callback, and the callbacks of the *)
(* frames completed before it have been invoked.                           *)
(* Specification Spec.                                                     *)
(***************************************************************************)
C12_ReaderErrorReturnedAtOnce ==
    /\ []((pc = "done" /\ srcErr = IoError)
            => /\ ret = IoError
               /\ log[Len(log)] = IoError
               /\ OnlyFiles(input) => calls = ExpectedCalls(opts, input))
    /\ [][/\ (pc = "readFile" /\ readFile(Stream, pos, srcErr).err = IoError)
                => /\ pc' = "done" /\ ret' = IoError
                   /\ calls' = calls /\ parsed' = parsed
          /\ pc = "done" => UNCHANGED vars]_vars

\* a valid frame and its callbacks, then a START whose first chunk read fails
C12_Witness ==
    /\ pc = "done" /\ ret = IoError /\ srcErr = IoError
    /\ input = <<"A", "Start">> /\ opts = FullOptions
    /\ calls # <<>> /\ calls = ExpectedCalls(opts, <<"A">>)
    /\ log = <<"file", "dispatched", IoError>>

(***************************************************************************)
(* C13.  On an empty source, and on any stream that holds no complete      *)
(* START sequence, the first readFile call returns EOF, and Read returns   *)
(* nil without invoking any callback.  (The source reports end-of-input    *)
(* once its bytes are used up.)                                            *)
(* Specification Spec.                                                     *)
(***************************************************************************)
\* the 8 START bytes occur somewhere in s
ContainsStart(s) == \E i \in 0..(Len(s) - 8) : SubSeq(s, i + 1, i + 8) = StartSeq

C13_NoStartMeansEOF ==
    (srcErr = EOF /\ ~ContainsStart(Stream) /\ pc \notin {"config", "readFile"})
        => /\ pc = "done" /\ ret = Nil
           /\ log = <<EOF>> /\ pos = Len(Stream)
           /\ calls = <<>> /\ parsed = <<>>

\* seven of the eight START bytes, then an END: no START, callbacks registered
C13_Witness ==
    /\ pc = "done" /\ ret = Nil /\ srcErr = EOF /\ opts = FullOptions
    /\ input = <<"Half", "End">> /\ ~ContainsStart(Stream)
    /\ log = <<EOF>> /\ calls = <<>>

(***************************************************************************)
(* C14.  readFile accepts every well-formed file up to maxFileSize: a      *)
(* START, a body without escape chunk whose length is a multiple of 4 from *)
(* 0 to maxFileSize - 16 = 496, and an END, 512 bytes at most in all, is   *)
(* returned whole by the first readFile call.                              *)
(* Specification SpecFile.  Violated: a file of 512 bytes (body of 496) is *)
(* rejected with ErrSequenceTooLong; 508 bytes is the largest file         *)
(* returned.                                                               *)
(***************************************************************************)
\* a START, body pieces without escape chunk, an escape chunk and the chunk
\* that closes the END
WellFormedFile(in) ==
    /\ Len(in) >= 3
    /\ in[1] = "Start" /\ in[Len(in) - 1] = "Esc" /\ in[Len(in)] = "EndTail"
    /\ \A i \in 2..(Len(in) - 2) : in[i] \in {"Zero4", "Long", "Most"}

C14_AcceptsFilesUpToMaxFileSize ==
    (WellFormedFile(input) /\ Len(Stream) <= maxFileSize /\ Len(log) = 1)
        => ret = Nil /\ fileBytes = Stream

\* the largest file that is returned: 508 bytes, a body of 492
C14_LargestFileReturned ==
    /\ Len(log) = 1 /\ ret = Nil /\ WellFormedFile(input)
    /\ Len(fileBytes) = maxFileSize - 4 /\ fileBytes = Stream

(***************************************************************************)
(* C15.  A START followed by maxFileSize or more bytes that hold no        *)
(* 4-byte-aligned escape chunk makes readFile return ErrSequenceTooLong    *)
(* and no file; Read skips it silently: the step invokes no callback,      *)
(* returns nothing and leaves Read at the next readFile call, and a valid  *)
(* frame further on in the stream still gets its callbacks.                *)
(* Specification Spec.                                                     *)
(***************************************************************************)
\* s opens with a START that maxFileSize or more bytes follow, none of the
\* aligned chunks of the first maxFileSize of them an escape chunk
StartsTooLong(s) ==
    /\ Len(s) >= 8 + maxFileSize
    /\ SubSeq(s, 1, 8) = StartSeq
    /\ \A k \in 0..((maxFileSize \div 4) - 1) : SubSeq(s, 4 * k + 9, 4 * k + 12) # escSeq

Escapes(s) ==
    {len \in 8..maxFileSize :
        /\ len % 4 = 0 /\ len + 8 < maxFileSize
        /\ len + 4 <= Len(s) /\ SubSeq(s, len + 1, len + 4) = escSeq}

FirstEscape(s) == CHOOSE len \in Escapes(s) : \A other \in Escapes(s) : len <= other

C16_EscapeEndsOrFails ==
    (/\ Len(log) = 1
     /\ Len(Stream) >= 8 /\ SubSeq(Stream, 1, 8) = StartSeq
     /\ Escapes(Stream) # {}
     /\ Len(Stream) >= FirstEscape(Stream) + 8)
        => /\ pos = FirstEscape(Stream) + 8
           /\ IF Stream[FirstEscape(Stream) + 5] = 26
              THEN ret = Nil /\ fileBytes = SubSeq(Stream, 1, pos)
              ELSE ret = ErrUnrecognizedSequence /\ fileBytes = <<>>

\* a body chunk, an escape chunk, then a chunk of zero bytes
C16_Witness ==
    /\ input = <<"Start", "Zero4", "Esc", "Zero4">> /\ Len(log) = 1
    /\ FirstEscape(Stream) = 12 /\ pos = 20
    /\ ret = ErrUnrecognizedSequence /\ fileBytes = <<>>

(***************************************************************************)
(* C17.  Every file readFile returns is the full captured range of the     *)
(* stream: it begins with the 8 START bytes, its last 8 bytes begin with   *)
(* 1B 1B 1B 1B 1A, its length is a multiple of 4 from 16 to maxFileSize;   *)
(* readFile reads into no slice of its buffer that ends past maxFileSize;  *)
(* and the payload sliced for the parser is the file without its first 8   *)
(* and its last 8 bytes, the bytes of the stream between START and END.    *)
(* Specification SpecFile.                                                 *)
(***************************************************************************)
C17_ReturnedFrameShape ==
    /\ rd.hi <= maxFileSize
    /\ (log # <<>> /\ ret = Nil)
          => /\ Len(fileBytes) % 4 = 0
             /\ 16 <= Len(fileBytes) /\ Len(fileBytes) <= maxFileSize
             /\ SubSeq(fileBytes, 1, 8) = StartSeq
             /\ SubSeq(fileBytes, Len(fileBytes) - 7, Len(fileBytes) - 3) = endSeq
             /\ Len(fileBytes) <= pos
             /\ fileBytes = SubSeq(Stream, pos - Len(fileBytes) + 1, pos)
             /\ pc = "file"
                  => /\ Len(rd.payload) = Len(fileBytes) - 16
                     /\ rd.payload = SubSeq(Stream, pos - Len(fileBytes) + 9, pos - 8)

\* the smallest file, START and END alone, and its empty payload
C17_Witness ==
    /\ input = <<"Start", "Esc", "EndTail">> /\ pc = "file"
    /\ ret = Nil /\ log = <<"file">>
    /\ Len(fileBytes) = 16 /\ rd.payload = <<>> /\ rd.hi = 16

(***************************************************************************)
(* C18.  Scaler() returns 10^scaler for every scaler in -128..127: 1 (not  *)
(* 10) for scaler 0, 1000 for 3, 0.1 for -1, 0.01 for -2.  (Powers of ten  *)
(* are exact decimals here; float64 rounding is not represented.)          *)
(* Specification SpecEntry.                                                *)
(***************************************************************************)
C18_ScalerIsPowerOfTen ==
    rd.op = "Scaler"
        => /\ \A s \in -128..127 :
                 rd.entry.scaler = <<EncInt8(s)>> => rd.out = [mant |-> 1, exp |-> s]
           /\ \E s \in -128..127 : rd.entry.scaler = <<EncInt8(s)>>
           /\ rd.entry.scaler = <<0>> => rd.out # [mant |-> 1, exp |-> 1]

\* Scaler() on an entry with scaler -2 gave 0.01
C18_Witness ==
    /\ rd.op = "Scaler" /\ rd.entry.scaler = <<254>>
    /\ rd.out = [mant |-> 1, exp |-> -2]

(***************************************************************************)
(* C19.  Float() returns DataInt x 10^scaler when the type family of the   *)
(* value, Typ masked with the type field, is signed or unsigned integer,   *)
(* whatever the other bits of Typ, and 0 for every other type, whatever    *)
(* DataInt and scaler hold.  (Exact decimals; float64 rounding is not      *)
(* represented.)                                                           *)
(* Specification SpecEntry.                                                *)
(***************************************************************************)
\* bits 4 to 6 of the Typ byte: 5 is signed integer, 6 unsigned integer
FamilyBits(typ) == (typ \div 16) % 8

C19_FloatByTypeFamily ==
    rd.op = "Float"
        => \A s \in -128..127 : \A v \in SampleInts :
              (rd.entry.scaler = <<EncInt8(s)>> /\ rd.entry.Value.DataInt = EncInt64(v))
                 => rd.out = IF FamilyBits(rd.entry.Value.Typ) \in {5, 6}
                             THEN Canon(v, s)
                             ELSE [mant |-> 0, exp |-> 0]

\* the entry of TestFloat_Integer, with the width bits of a 64-bit value: 246.0
C19_Witness ==
    /\ rd.op = "Float" /\ rd.entry.scaler = <<255>>
    /\ rd.entry.Value.Typ = OCTET_TYPE_INTEGER + TYPE_NUMBER_64
    /\ rd.entry.Value.DataInt = <<0, 0, 0, 0, 0, 0, 9, 156>>
    /\ rd.out = [mant |-> 246, exp |-> 0]

(***************************************************************************)
(* C20.  ObjectName() renders the first six bytes b0..b5 of the object     *)
(* name in decimal as b0-b1:b2.b3.b4*b5; {1,0,1,8,0,255} is rendered as    *)
(* 1-0:1.8.0*255.                                                          *)
(* Specification SpecEntry.                                                *)
(***************************************************************************)
C20_ObjectNameRendering ==
    (rd.op = "ObjectName" /\ Len(rd.entry.ObjName) >= 6)
        => /\ ~rd.out.panic
           /\ rd.out.str = ToString(rd.entry.ObjName[1]) \o "-"
                              \o ToString(rd.entry.ObjName[2]) \o ":"
                              \o ToString(rd.entry.ObjName[3]) \o "."
                              \o ToString(rd.entry.ObjName[4]) \o "."
                              \o ToString(rd.entry.ObjName[5]) \o "*"
                              \o ToString(rd.entry.ObjName[6])
           /\ rd.entry.ObjName = ObisBezug => rd.out.str = "1-0:1.8.0*255"
           /\ rd.entry.ObjName = <<1, 0, 16, 7, 0, 255>> => rd.out.str = "1-0:16.7.0*255"

\* the name of TestObjectName rendered
C20_Witness ==
    /\ rd.op = "ObjectName" /\ rd.entry.ObjName = ObisBezug
    /\ rd.out = [panic |-> FALSE, str |-> "1-0:1.8.0*255"]

(***************************************************************************)
(* C21: OptionalIsSkipped on a buffer whose byte at the cursor is 0x01     *)
(* answers true and moves the cursor one byte on; on any other byte it     *)
(* answers false and leaves the cursor where it was.  No call changes the  *)
(* bytes of the buffer.                                                    *)
(***************************************************************************)
C21_OptionalIsSkippedEffect ==
    /\ [](pc = "buffer" /\ rd.call.op = "OptionalIsSkipped" /\ rd.cur < Len(rd.buf)
            => IF rd.buf[rd.cur + 1] = 1
               THEN rd.call.out = R(Nil, rd.cur + 1, TRUE)
               ELSE rd.call.out = R(Nil, rd.cur, FALSE))
    /\ [][pc = "buffer" => rd'.buf = rd.buf /\ rd'.cur = rd.cur]_vars

\* TestOptionalIsSkipped: {0x01, 0x62} at cursor 0 is skipped, the cursor goes to 1
C21_Witness ==
    /\ pc = "buffer" /\ rd.call.op = "OptionalIsSkipped"
    /\ rd.buf = <<1, 98>> /\ rd.cur = 0
    /\ rd.call.out.val = TRUE /\ rd.call.out.cur = 1

(***************************************************************************)
(* C22: every primitive parser (the integer parsers, NumberParse,          *)
(* BooleanParse, OctetStringParse, ValueParse) called with the byte 0x01   *)
(* at the cursor returns no error and the zero value of its type (0,       *)
(* false, no bytes, the zero Value), and the cursor is one byte further.   *)
(***************************************************************************)
C22_SkippedGivesZeroValue ==
    (pc = "buffer" /\ rd.call.op \notin {"none", "OptionalIsSkipped"}
        /\ rd.cur < Len(rd.buf) /\ rd.buf[rd.cur + 1] = 1)
    => /\ rd.call.out.err = Nil
       /\ rd.call.out.cur = rd.cur + 1
       /\ rd.call.op \in IntegerParsers \cup {"NumberParse"} => BEValue(rd.call.out.val) = 0
       /\ rd.call.op = "BooleanParse" => rd.call.out.val = FALSE
       /\ rd.call.op = "OctetStringParse" => rd.call.out.val = <<>>
       /\ rd.call.op = "ValueParse" => rd.call.out.val = ZeroValue

\* a skipped element in front of another one: U32Parse on {0x01, 0x62, 0x42}
\* returns 0 with the cursor on the 0x62
C22_Witness ==
    /\ pc = "buffer" /\ rd.call.op = "U32Parse"
    /\ rd.buf = <<1, 98, 66>> /\ rd.cur = 0
    /\ rd.call.out = R(Nil, 1, Zeros(4))

(***************************************************************************)
(* C23: NumberParse returns an error whenever the TL byte at the cursor    *)
(* (any byte but the skipped sentinel 0x01) is of another type family than *)
(* the one requested, signed for unsigned and unsigned for signed          *)
(* included, at every width.  A frame whose payload fails in this way      *)
(* inside Read is discarded: no callback, nothing returned, and the loop   *)
(* goes on with the next readFile call.                                    *)
(***************************************************************************)
NumberWidths == {TYPE_NUMBER_8, TYPE_NUMBER_16, TYPE_NUMBER_32, TYPE_NUMBER_64}

MismatchAlwaysFails ==
    \A b \in (0..255) \ {OCTET_OPTIONAL_SKIPPED} :
        \A typ \in {OCTET_TYPE_INTEGER, OCTET_TYPE_UNSIGNED} :
            \A size \in NumberWidths :
                TypeField(b) # typ => NumberParse(<<b, 66>>, 0, typ, size).err = "error"

\* the payload of the fixture fails at the scaler of its entry, where I8Parse
\* finds an unsigned
MismatchInFrame ==
    /\ GetNextType(PayloadMismatch, 86) = OCTET_TYPE_UNSIGNED
    /\ I8Parse(PayloadMismatch, 86).err = "error"
    /\ parseFile(PayloadMismatch).err = "error"
    /\ parseFile(PayloadMismatch).cur = 86

C23_TypeMismatchFailsAndIsAbsorbed ==
    /\ [](MismatchAlwaysFails /\ MismatchInFrame /\ ret # "parse error")
    /\ [][(pc = "parseFile" /\ Payload(fileBytes) = PadTo4(PayloadMismatch))
            => /\ pc' = "readFile"
               /\ ret' = "none"
               /\ calls' = calls
               /\ parsed' = parsed
               /\ log' = Append(log, "parse error")]_vars

\* the frame with the mismatch was discarded, the valid frame after it was
\* dispatched, and Read returned nil
C23_Witness ==
    /\ pc = "done" /\ ret = Nil
    /\ input = <<"Mismatch", "A">>
    /\ log = <<"file", "parse error", "file", "dispatched", EOF>>
    /\ opts = FullOptions /\ calls # <<>>

(***************************************************************************)
(* C24: an integer parser that succeeds on an element that is not skipped  *)
(* reads the data bytes after the TL byte big-endian into a value of the   *)
(* requested width: the data bytes are the low-order bytes of the value,   *)
(* the bytes above them are 0xFF for a signed element whose first data     *)
(* byte has its top bit set and 0x00 otherwise, so the number is the one   *)
(* the data bytes encode.  0xFE as i8 is -2, 0x80 is -128, eight 0xFF as   *)
(* i64 is -1, {0x63,0x01,0x00} as u16 is 256, {0x65,0,1,0,0} as u32 is     *)
(* 65536.                                                                  *)
(***************************************************************************)
IsSignedCall(cl) ==
    \/ cl.op \in {"I8Parse", "I64Parse"}
    \/ cl.op = "NumberParse" /\ cl.typ = OCTET_TYPE_INTEGER

WidthOfCall(cl) ==
    CASE cl.op = "U8Parse" -> 1
      [] cl.op = "U16Parse" -> 2
      [] cl.op = "U32Parse" -> 4
      [] cl.op = "I8Parse" -> 1
      [] cl.op = "I64Parse" -> 8
      [] cl.op = "StatusParse" -> 8
      [] cl.op = "NumberParse" -> cl.size

\* the value val against the data bytes it was read from
DecodedFrom(val, data, signed, w) ==
    /\ Len(data) >= 1 /\ Len(data) <= w /\ Len(val) = w
    /\ SubSeq(val, w - Len(data) + 1, w) = data
    /\ \A i \in 1..(w - Len(data)) : val[i] = IF signed /\ data[1] >= 128 THEN 255 ELSE 0
    /\ IF signed THEN Int64(val) = Int64(data) ELSE BEValue(val) = BEValue(data)

C24_IntegerDecoding ==
    (pc = "buffer" /\ rd.call.op \in IntegerParsers \cup {"NumberParse"}
        /\ rd.call.out.err = Nil /\ rd.buf[rd.cur + 1] # 1)
    => /\ DecodedFrom(rd.call.out.val, SubSeq(rd.buf, rd.cur + 2, rd.call.out.cur),
                      IsSignedCall(rd.call), WidthOfCall(rd.call))
       /\ rd.cur = 0 =>
            /\ (rd.buf = <<82, 254>> /\ rd.call.op = "I8Parse") => Int64(rd.call.out.val) = -2
            /\ (rd.buf = <<82, 128>> /\ rd.call.op = "I8Parse") => Int64(rd.call.out.val) = -128
            /\ (rd.buf = <<82, 127>> /\ rd.call.op = "I8Parse") => Int64(rd.call.out.val) = 127
            /\ (rd.buf = <<89, 255, 255, 255, 255, 255, 255, 255, 255>>
                  /\ rd.call.op = "I64Parse") => Int64(rd.call.out.val) = -1
            /\ (rd.buf = <<98, 66>> /\ rd.call.op = "U8Parse") => BEValue(rd.call.out.val) = 66
            /\ (rd.buf = <<99, 1, 0>> /\ rd.call.op = "U16Parse")
                  => BEValue(rd.call.out.val) = 256
            /\ (rd.buf = <<101, 0, 1, 0, 0>> /\ rd.call.op = "U32Parse")
                  => BEValue(rd.call.out.val) = 65536

\* a one-byte negative read as an int64: 0xFE is extended to eight bytes
C24_Witness ==
    /\ pc = "buffer" /\ rd.call.op = "I64Parse"
    /\ rd.buf = <<82, 254>> /\ rd.cur = 0
    /\ rd.call.out = R(Nil, 2, <<255, 255, 255, 255, 255, 255, 255, 254>>)

(***************************************************************************)
(* C25: the START scan keeps a progress p in 0..8.  A byte read at         *)
(* progress p moves it to p + 1 exactly when p < 4 and the byte is 0x1B,   *)
(* or p >= 4 and the byte is 0x01; any other byte sets it to 0 (a          *)
(* mismatching 0x1B is not counted as the first byte of a new START).  The *)
(* scan reads on while p < 8 and ends, without reading a further byte,     *)
(* when p is 8; then the last 8 bytes read are 1B 1B 1B 1B 01 01 01 01.    *)
(***************************************************************************)
Advances(p, b) == (p < 4 /\ b = 27) \/ (p >= 4 /\ b = 1)

C25_StartScanMachine ==
    /\ [](pc = "scan"
            => /\ rd.len \in 0..8
               /\ rd.err = Nil => rd.len = 8
               /\ rd.len = 8 =>
                    /\ rd.pos >= 8
                    /\ SubSeq(rd.src, rd.pos - 7, rd.pos) = <<27, 27, 27, 27, 1, 1, 1, 1>>)
    /\ [][pc = "scan"
            => IF rd.len = 8
               THEN rd' = [rd EXCEPT !.err = Nil]
               ELSE IF rd.pos < Len(rd.src)
               THEN /\ rd'.pos = rd.pos + 1 /\ rd'.err = "run"
                    /\ rd'.len = rd.len + 1 <=> Advances(rd.len, rd.src[rd.pos + 1])
                    /\ ~Advances(rd.len, rd.src[rd.pos + 1]) => rd'.len = 0
               ELSE rd' = [rd EXCEPT !.err = srcErr]]_vars

\* two bytes that reset the progress (a 01 at progress 1), then a START
C25_Witness ==
    /\ pc = "scan" /\ rd.err = Nil /\ rd.len = 8
    /\ rd.src = <<27, 1, 27, 27, 27, 27, 1, 1, 1, 1>> /\ rd.pos = 10

(***************************************************************************)
(* C26: readFile locks onto the first occurrence of 1B 1B 1B 1B 01 01 01   *)
(* 01 in the stream whatever bytes precede it: when a complete file (START,*)
(* an escape chunk, a chunk beginning with 1A) stands at the first         *)
(* occurrence of START, the first readFile call returns that file.         *)
(* Violated: a 1B directly in front of the START takes the scan to         *)
(* progress 4 one byte early, the fourth 1B of the START resets it, and    *)
(* the START is passed over.                                               *)
(***************************************************************************)
\* the offsets at which s holds a START
StartsIn(s) == {i \in 0..(Len(s) - 8) : SubSeq(s, i + 1, i + 8) = StartSeq}

FirstStart(s) == CHOOSE i \in StartsIn(s) : \A j \in StartsIn(s) : i <= j

\* a START, an escape chunk and a chunk beginning with 1A stand at offset i
FileAt(s, i) ==
    /\ Len(s) >= i + 16
    /\ SubSeq(s, i + 1, i + 8) = StartSeq
    /\ SubSeq(s, i + 9, i + 12) = escSeq
    /\ s[i + 13] = 26

C26_LocksOntoFirstStart ==
    (Len(log) = 1 /\ StartsIn(Stream) # {} /\ FileAt(Stream, FirstStart(Stream)))
        => /\ ret = Nil
           /\ fileBytes = SubSeq(Stream, FirstStart(Stream) + 1, FirstStart(Stream) + 16)

\* with nothing in front of it the START is found and the file returned
C26_FileAtFrontReturned ==
    /\ Len(log) = 1 /\ input = <<"Start", "Esc", "EndTail">>
    /\ ret = Nil /\ fileBytes = Stream

(***************************************************************************)
(* C27: dispatch is all-or-nothing per frame and comes strictly after the  *)
(* parse.  Callbacks are invoked only in the dispatch step, which is       *)
(* reached only from a parse that returned no error and then holds every   *)
(* message of the frame; a frame whose parse fails at any message goes     *)
(* back to readFile with no callback, the messages parsed before the       *)
(* failure included.  The dispatch step invokes the callbacks of every     *)
(* GetListResponse of the frame and reads no byte; bytes are read only by  *)
(* readFile, which invokes no callback.                                    *)
(***************************************************************************)
\* the invocations due for the messages msgs of frame f
CallsOfFrame(o, f, msgs) ==
    Flatten([m \in 1..Len(msgs) |->
                IF IsDispatched(msgs[m])
                THEN ExpectedMessage(o, f, m, EntryNames(msgs)[m])
                ELSE <<>>])

C27_DispatchAllOrNothing ==
    /\ [](pc = "dispatch"
            => /\ TryParse(fileBytes).err = Nil
               /\ fileMessages = TryParse(fileBytes).msgs)
    /\ [][/\ calls' # calls => (pc = "dispatch" /\ pos' = pos)
          /\ pos' # pos => (pc = "readFile" /\ calls' = calls)
          /\ pc' = "dispatch" => pc = "parseFile"
          /\ (pc = "parseFile" /\ TryParse(fileBytes).err # Nil)
                => pc' = "readFile" /\ calls' = calls /\ parsed' = parsed
          /\ pc = "dispatch"
                => /\ calls' = calls \o CallsOfFrame(opts, Len(parsed) + 1, fileMessages)
                   /\ pc' = "readFile"]_vars

\* the parse of a frame failed at its second message; the first, whose entry
\* has callbacks registered, was parsed and is held, and no callback was made
C27_Witness ==
    /\ pc = "readFile" /\ opts = FullOptions
    /\ log = <<"file", "parse error">>
    /\ Len(fileMessages) = 1
    /\ CallsOfFrame(opts, 1, fileMessages) # <<>>
    /\ calls = <<>>

(***************************************************************************)
(* C28: after START the body is looked at only in 4-byte chunks counted    *)
(* from the end of START.  Every file readFile returns ends with the first *)
(* chunk at an offset divisible by 4 that equals 1B 1B 1B 1B (and the      *)
(* chunk after it): no chunk of its body at such an offset is an escape    *)
(* chunk.  An END at an offset not divisible by 4 is neither taken as END  *)
(* nor as an escape: the frame holding such ENDs at the offsets 1, 10 and  *)
(* 19 is returned whole, those bytes being part of its body.               *)
(***************************************************************************)
\* the offsets in the body of file at which the 5 bytes of an END begin
EndsInBody(file) ==
    {k \in 8..(Len(file) - 13) : SubSeq(file, k + 1, k + 5) = endSeq}

C28_OnlyAlignedChunksExamined ==
    pc = "parseFile"
        => /\ Len(fileBytes) % 4 = 0 /\ Len(fileBytes) >= 16
           /\ fileBytes = SubSeq(Stream, pos - Len(fileBytes) + 1, pos)
           /\ SubSeq(fileBytes, Len(fileBytes) - 7, Len(fileBytes) - 3) = endSeq
           /\ \A k \in EndsInBody(fileBytes) : k % 4 # 0
           /\ \A k \in 2..((Len(fileBytes) \div 4) - 3) :
                 SubSeq(fileBytes, 4 * k + 1, 4 * k + 4) # escSeq
           /\ (input # <<>> /\ input[1] = "Unaligned" /\ Len(log) = 1)
                 => /\ fileBytes = TokenBytes("Unaligned")
                    /\ EndsInBody(fileBytes) = {9, 18, 27}

\* the frame with three ENDs off the chunk grid was returned whole
C28_Witness ==
    /\ pc = "parseFile" /\ input = <<"Unaligned", "A">> /\ log = <<"file">>
    /\ Len(fileBytes) = 44 /\ pos = 44
    /\ {k % 4 : k \in EndsInBody(fileBytes)} = {1, 2, 3}

(***************************************************************************)
(* C29: the last three bytes of the END of a frame have no influence.  For *)
(* the stream of a run of Read and the stream that differs from it only in *)
(* those three bytes of every file readFile returned, Read from its loop   *)
(* on yields on both: files of the same extent that are equal apart from   *)
(* those bytes, the same outcomes in the same order, the same invocations  *)
(* of callbacks, and the same return value.                                *)
(***************************************************************************)
\* what the last three bytes of the END at position e are changed to: those
\* of the first file to 1B 1B 1B, the bytes of an escape chunk and of a START,
\* those of every later file to 1A 01 FF
TrailerAt(ends, e) ==
    IF \A other \in ends : e <= other THEN <<27, 27, 27>> ELSE <<26, 1, 255>>

\* the bytes of file without its last three
Untrailed(file) == SubSeq(file, 1, Len(file) - 3)

\* the stream s with the three bytes before position e replaced by tr
WithTrailer(s, e, tr) == SubSeq(s, 1, e - 3) \o tr \o SubSeq(s, e + 1, Len(s))

\* the stream s with the last three bytes of the files ending at the
\* positions left changed; ends are the positions of all of them
RECURSIVE TwinFrom(_, _, _)
TwinFrom(s, ends, left) ==
    IF left = {} THEN s
    ELSE LET e == CHOOSE x \in left : TRUE
         IN  TwinFrom(WithTrailer(s, e, TrailerAt(ends, e)), ends, left \ {e})

Twin(s, ends) == TwinFrom(s, ends, ends)

SameApartFromTrailers(a, b) ==
    /\ a.ret = b.ret /\ a.calls = b.calls /\ a.log = b.log /\ a.pos = b.pos
    /\ Len(a.files) = Len(b.files)
    /\ \A k \in 1..Len(a.files) :
          /\ Len(a.files[k]) = Len(b.files[k])
          /\ Untrailed(a.files[k]) = Untrailed(b.files[k])

\* the stream tw differs from the stream s exactly in the last three bytes of
\* the files of the run, and Read does on it what the run did
TwinAgrees(run, s, tw) ==
    /\ Len(tw) = Len(s)
    /\ \A i \in 1..Len(s) : tw[i] # s[i] <=> \E e \in run.ends : i \in (e - 2)..e
    /\ \A twin \in {ReadLoop(tw, tree, srcErr, NoRun)} : SameApartFromTrailers(run, twin)

\* the run on the stream s agrees with what Read did, and with the run on
\* the twin stream
TrailersIgnored(run, s) ==
    /\ run.ret = ret /\ run.calls = calls /\ run.log = log /\ run.pos = pos
    /\ run.ends # {} => \A tw \in {Twin(s, run.ends)} : TwinAgrees(run, s, tw)

C29_EndTrailerIrrelevant ==
    pc = "done"
        => \A s \in {Stream} :
              \A run \in {ReadLoop(s, tree, srcErr, NoRun)} : TrailersIgnored(run, s)

\* two frames were dispatched; on the twin stream, whose six trailer bytes
\* differ, Read makes the same invocations
C29_Witness ==
    /\ pc = "done" /\ ret = Nil /\ input = <<"A", "B">> /\ opts = FullOptions
    /\ calls # <<>>
    /\ Cardinality(ReadLoop(Stream, tree, srcErr, NoRun).ends) = 2
    /\ Cardinality({i \in 1..Len(Stream) :
           Twin(Stream, ReadLoop(Stream, tree, srcErr, NoRun).ends)[i] # Stream[i]}) = 6
    /\ ReadLoop(Twin(Stream, ReadLoop(Stream, tree, srcErr, NoRun).ends),
                tree, srcErr, NoRun).calls = calls

(***************************************************************************)
(* C30: parseFile walks the payload from its first byte.  A byte 0x00      *)
(* where a message would begin is skipped, that byte alone; anywhere else  *)
(* one message is parsed.  The messages come back in payload order.  A     *)
(* payload that is empty or all zero bytes gives no message and no error.  *)
(* At the first message whose parse returns an error parseFile stops and   *)
(* returns that error together with the messages parsed before it.         *)
(***************************************************************************)
IsMessagePart(part) == part \in {"List", "Open"}

\* the index of the first part that is neither a message nor a zero byte
FirstFailing(parts) ==
    IF \A i \in 1..Len(parts) : parts[i] \in {"List", "Open", "Zero"} THEN Len(parts) + 1
    ELSE CHOOSE j \in 1..Len(parts) :
             /\ parts[j] \notin {"List", "Open", "Zero"}
             /\ \A i \in 1..(j - 1) : parts[i] \in {"List", "Open", "Zero"}

\* the messages of the parts before part j, each as MessageParse gives it
\* when the part stands alone
MessagesBefore(parts, j) ==
    [k \in 1..Len(SelectSeq(SubSeq(parts, 1, j - 1), IsMessagePart)) |->
        MessageParse(PartBytes(SelectSeq(SubSeq(parts, 1, j - 1), IsMessagePart)[k]), 0).val]

ParsedAsWalked(parts, payload, out, j) ==
    /\ j > Len(parts)
          => out = R(Nil, Len(payload), MessagesBefore(parts, j))
    /\ j <= Len(parts)
          => /\ out.err # Nil
             /\ out.cur >= Len(PayloadOf(SubSeq(parts, 1, j - 1)))
             /\ parts[j] = "Bad" => out.err = "error"
             /\ out.err = "error" => out.val = MessagesBefore(parts, j)

C30_ParseFileWalk ==
    (pc = "parse" /\ rd.op = "parseFile")
        => ParsedAsWalked(input, rd.payload, rd.out, FirstFailing(input))

\* a message, a zero byte, then a message that fails: the error comes back
\* with the first message
C30_Witness ==
    /\ pc = "parse" /\ input = <<"Open", "Zero", "Bad">>
    /\ rd.op = "parseFile"
    /\ rd.out.err = "error" /\ Len(rd.out.val) = 1
    /\ rd.out.val[1] = MessageParse(PartBytes("Open"), 0).val

(***************************************************************************)
(* C31: ListParse called where the skipped byte 0x01 stands returns no     *)
(* entries and no error, one byte consumed, and a val-list with no entries *)
(* makes no callback.  Called on the TL of a list of N elements it returns *)
(* N entries, the first N encoded, in their order, each with the seven     *)
(* fields in the order name, status, time, unit, scaler, value, signature, *)
(* the cursor behind the N-th.  When the TL is of another type, or one of  *)
(* the N entries does not parse or is not there, it fails and returns no   *)
(* entry; a TL that is no list gives the error.                            *)
(***************************************************************************)
GoodKinds == {"Full", "Plain", "NoName"}

\* the entry an encoded entry of this kind stands for
EntryOfKind(kind) ==
    CASE kind = "Full" ->
            [ObjName |-> ObisBezug, status |-> <<0, 0, 0, 0, 0, 0, 1, 130>>,
             valTime |-> <<0, 0, 48, 57>>, Unit |-> 30, scaler |-> <<255>>,
             Value |-> [Typ |-> 84, DataBytes |-> <<>>, DataBoolean |-> FALSE,
                        DataInt |-> <<0, 0, 0, 0, 0, 0, 9, 156>>],
             ValueSignature |-> <<171, 205>>]
      [] kind = "Plain" ->
            [ObjName |-> ObisEinspeisung, status |-> Zeros(8), valTime |-> Zeros(4),
             Unit |-> 30, scaler |-> <<255>>,
             Value |-> [Typ |-> 98, DataBytes |-> <<>>, DataBoolean |-> FALSE,
                        DataInt |-> <<0, 0, 0, 0, 0, 0, 9, 156>>],
             ValueSignature |-> <<>>]
      [] kind = "NoName" ->
            [ObjName |-> <<>>, status |-> Zeros(8), valTime |-> Zeros(4),
             Unit |-> 30, scaler |-> <<255>>,
             Value |-> [Typ |-> 98, DataBytes |-> <<>>, DataBoolean |-> FALSE,
                        DataInt |-> <<0, 0, 0, 0, 0, 0, 9, 156>>],
             ValueSignature |-> <<>>]

\* the element count a list TL stands for
CountOf(head) == IF Len(head) = 2 THEN head[2] ELSE head[1] - 112

IsListHead(head) == head[1] \in 112..127 \/ head[1] >= 240

ListParsedAsEncoded(head, kinds, c, out) ==
    IF head = <<1>>
    THEN /\ out = R(Nil, c + 1, <<>>)
         /\ DispatchList(ApplyOptions(FullOptions, Len(FullOptions)), 1, 1, 1, out.val, NoCalls)
                = NoCalls
    ELSE IF ~IsListHead(head) THEN out.err = "error" /\ out.val = <<>>
    ELSE IF CountOf(head) <= Len(kinds) /\ \A i \in 1..CountOf(head) : kinds[i] \in GoodKinds
         THEN /\ out.err = Nil
              /\ out.val = [i \in 1..CountOf(head) |-> EntryOfKind(kinds[i])]
              /\ out.cur = c + Len(ListBytes(head, SubSeq(kinds, 1, CountOf(head)))) - 2
    ELSE out.err # Nil /\ out.val = <<>>

C31_ListParse ==
    (pc = "list" /\ rd.op = "ListParse")
        => ListParsedAsEncoded(input.head, input.kinds, rd.cur, rd.out)

\* a list of two, the entry with every field and then the plain one, at
\* cursor 1: both returned, in this order
C31_Witness ==
    /\ pc = "list" /\ rd.op = "ListParse" /\ rd.cur = 1
    /\ input = [head |-> <<114>>, kinds |-> <<"Full", "Plain">>]
    /\ rd.out.err = Nil
    /\ Len(rd.out.val) = 2
    /\ rd.out.val[1].ValueSignature = <<171, 205>>
    /\ rd.out.val[2].ObjName = ObisEinspeisung

(***************************************************************************)
(* C32: the tree Read dispatches on is the one the options make, applied   *)
(* in argument order: a node for every prefix of every code registered,    *)
(* each holding the callbacks registered on exactly that code in the order *)
(* of their registration, and no tree without options.  It is complete     *)
(* while nothing of the stream has been read, and no step of the loop, the *)
(* dispatch of object names with and without a registered prefix included, *)
(* changes a node or a callback of it.                                     *)
(***************************************************************************)
PrefixesOf(o) == UNION {{SubSeq(o[i], 1, k) : k \in 0..Len(o[i])} : i \in 1..Len(o)}

TreeOf(o) == IF o = <<>> THEN NoTree ELSE [p \in PrefixesOf(o) |-> RegsAt(o, p)]

C32_TreeBuiltBeforeReadThenFixed ==
    /\ [](pc = "config" => pos = 0 /\ log = <<>>)
    /\ [](pc \in {"readFile", "parseFile", "dispatch", "done"} => tree = TreeOf(opts))
    /\ [][(pc \in {"readFile", "parseFile", "dispatch"}) => (tree' = tree)]_vars

\* frame B dispatched on the tree with one callback on 1-0:1: the names
\* 1-0:2.8.0*255 and 1-0 have no registered prefix, 1-0:1.8.0*255 fires the
\* callback, and the tree is as it was built
C32_Witness ==
    /\ pc = "done" /\ input = <<"B">> /\ opts = SparseOptions
    /\ parsed = << << <<>>, <<ObisEinspeisung>>, <<ObisShort, ObisBezug>> >> >>
    /\ Len(calls) = 1 /\ calls[1].obj = ObisBezug
    /\ DOMAIN tree = {<<>>, <<1>>, <<1, 0>>, <<1, 0, 1>>}
    /\ tree[<<1, 0, 1>>] = <<1>>

(***************************************************************************)
(* C33: Read returns on every stream.  A readFile call never moves back in *)
(* the stream nor beyond its end; when it returns a file or                *)
(* ErrUnrecognizedSequence it has consumed at least 16 bytes, the file     *)
(* being the last of them; when it returns ErrSequenceTooLong it has       *)
(* consumed at least 504 bytes, exactly 504 from the START on; any other   *)
(* result (EOF, a read error) ends Read.  No other step consumes anything, *)
(* the loop goes from readFile to the parse, from the parse to the         *)
(* dispatch, and from both only back to readFile or out of Read, and every *)
(* step changes the place in the program or notes an outcome.              *)
(***************************************************************************)
Outcome(l) == l[Len(l)]

ReadFileProgress ==
    /\ pos' >= pos /\ pos' <= Len(Stream)
    /\ Outcome(log') \in {"file", ErrUnrecognizedSequence} => pos' - pos >= 16
    /\ Outcome(log') = "file"
          => /\ pc' = "parseFile"
             /\ Len(fileBytes') <= pos' - pos
             /\ fileBytes' = SubSeq(Stream, pos' - Len(fileBytes') + 1, pos')
    /\ Outcome(log') = ErrSequenceTooLong
          => /\ pos' - pos >= maxFileSize - 8
             /\ SubSeq(Stream, pos' - (maxFileSize - 8) + 1, pos' - (maxFileSize - 8) + 8)
                    = StartSeq
    /\ Outcome(log') \in {ErrUnrecognizedSequence, ErrSequenceTooLong} => pc' = "readFile"
    /\ Outcome(log') \notin {"file", ErrUnrecognizedSequence, ErrSequenceTooLong}
          => pc' = "done"

LoopOrder ==
    /\ pc = "config" => pc' = "readFile"
    /\ pc = "parseFile" => pc' \in {"dispatch", "readFile", "done"}
    /\ pc = "dispatch" => pc' \in {"readFile", "done"}
    /\ pc # "readFile" => pos' = pos
    /\ Proceed /\ <<pc, log>>' # <<pc, log>>

C33_ReadTerminates ==
    /\ <>(pc = "done")
    /\ [][(pc = "readFile" => ReadFileProgress) /\ LoopOrder]_vars

\* an END, then a START followed by 512 zero bytes: the first readFile call
\* returns ErrSequenceTooLong 512 bytes into the stream, 504 from the START,
\* the second runs into the end of the stream 16 bytes further, and Read
\* has returned
C33_Witness ==
    /\ pc = "done" /\ input = <<"End", "TooLong">> /\ srcErr = EOF
    /\ log = <<ErrSequenceTooLong, EOF>>
    /\ pos = 528 /\ ret = Nil

(***************************************************************************)
(* C34: every entry Read hands to a callback has an object name of at      *)
(* least 6 bytes, so that ObjectName() on it, and String() which calls it, *)
(* does not index out of range.                                            *)
(***************************************************************************)
C34_DispatchedEntriesRenderable ==
    \A i \in 1..Len(calls) :
        /\ Len(calls[i].obj) >= 6
        /\ ~ObjectName([ObjName |-> calls[i].obj]).panic

\* entries with a name of six bytes are dispatched and rendered
C34_LongNamesRendered ==
    /\ pc = "done" /\ input = <<"A">> /\ opts = FullOptions
    /\ calls # <<>>
    /\ \A i \in 1..Len(calls) :
          ObjectName([ObjName |-> calls[i].obj]).str \in {"1-0:1.8.0*255", "1-0:2.8.0*255"}

====
